---- MODULE Spec2Model ----
(***************************************************************************)
(* A model of gen2brain/mpeg: the bit buffer (buffer.go), the MPEG-PS      *)
(* demuxer (demux.go), the frame reordering of the video decoder           *)
(* (video.go), the audio decoder's frame loop and the high-level player    *)
(* (mpeg.go).                                                              *)
(*                                                                         *)
(* The bit buffer and the demuxer are modelled on bytes and bits.  The     *)
(* elementary streams of the video and audio decoders are modelled at the  *)
(* granularity of start-code units (one picture, one audio frame); the     *)
(* contents of a picture are a picture id written into one of the three    *)
(* frame buffers.                                                          *)
(***************************************************************************)
EXTENDS Integers, Sequences, FiniteSets, TLC

VARIABLES
    buf,        \* the Buffer under test / the demuxer's Buffer (byte level)
    lastOp,     \* name of the last operation and what it returned
    ahdr,       \* the header fields of an Audio reading buf (byte level)
    twin,       \* the same Buffer with discardRead off, under the same calls
    demux,      \* the Demux fields (byte level)
    pkts,       \* the PES packets the source was built from (ghost)
    fed,        \* number of bytes handed to Write so far
    video,      \* a Video and its buffer (start-code units)
    audio,      \* an Audio and its buffer (start-code units)
    mpeg,       \* the MPEG player and its demuxer (packets)
    log         \* what the calls returned and the callbacks received (ghost)

vars == <<buf, twin, lastOp, ahdr, demux, pkts, fed, video, audio, mpeg, log>>

\* The variables of the unit-level decoders and of the player.
playVars == <<video, audio, mpeg, log>>

\* No decoder and no player was constructed.
PlayIdle == video = <<>> /\ audio = <<>> /\ mpeg = <<>> /\ log = <<>>

(***************************************************************************)
(* Bounds of the model.                                                    *)
(***************************************************************************)
\* Size of the scratch slice LoadReaderCallback reads into (the package
\* variable BufferSize, scaled down).
BufferSize == 4
\* Longest byte store the Write action of the buffer specification builds.
MaxBytes == 6

(***************************************************************************)
(* Helpers on integers and sequences.                                      *)
(***************************************************************************)
Min(a, b) == IF a < b THEN a ELSE b

\* F applied to the value x: binds the result of one step for the next.
Bind(x, F(_)) == F(x)

\* x >> 3 and x << 3 of Go on int.
Shr3(x) == x \div 8
Shl3(x) == x * 8

\* s[lo:hi] of Go, 0-based, for 0 <= lo <= hi <= Len(s).
Slice(s, lo, hi) == SubSeq(s, lo + 1, hi)

(***************************************************************************)
(* buffer.go: Buffer.                                                      *)
(*   bytes, bitIndex, totalSize, hasEnded, discardRead : the fields        *)
(*   reader   : TRUE when reader != nil                                    *)
(*   seeker   : TRUE when the reader is an io.Seeker                       *)
(*   src,rpos : the reader's content and its read offset                   *)
(*   failAt   : the offset at which the reader returns an error that is    *)
(*              not io.EOF, -1 for a reader that only ends                 *)
(*   available: the scratch slice LoadReaderCallback reads into            *)
(*   cb       : "none" | "reader"  (loadCallback)                          *)
(*   panic    : a slice or index expression went out of range              *)
(***************************************************************************)
NewBuffer(hasReader, isSeeker, content) ==
    [ bytes       |-> <<>>,
      bitIndex    |-> 0,
      totalSize   |-> IF hasReader /\ isSeeker THEN Len(content) ELSE 0,
      hasEnded    |-> FALSE,
      discardRead |-> TRUE,
      reader      |-> hasReader,
      seeker      |-> hasReader /\ isSeeker,
      src         |-> content,
      rpos        |-> 0,
      failAt      |-> -1,
      available   |-> [i \in 1..BufferSize |-> 0],
      cb          |-> "none",
      panic       |-> FALSE ]

SetLoadCallback(b, callback) == [b EXCEPT !.cb = callback]

Index(b) == Shr3(b.bitIndex)

Seekable(b) == b.reader /\ b.totalSize > 0

\* discardReadBytes that leaves the cursor on a byte boundary.
discardReadBytesAligned(b) ==
    Bind(Shr3(b.bitIndex), LAMBDA bytePos :
    IF bytePos >= Len(b.bytes)
    THEN [b EXCEPT !.bytes = <<>>, !.bitIndex = 0]
    ELSE [b EXCEPT !.bytes = Slice(b.bytes, bytePos, Len(b.bytes)),
                   !.bitIndex = 0])

discardReadBytes(b) ==
    LET bytePos == Shr3(b.bitIndex) IN
    IF bytePos = Len(b.bytes)
    THEN [b EXCEPT !.bytes = <<>>, !.bitIndex = 0]
    ELSE IF bytePos > 0
         THEN IF bytePos > Len(b.bytes)
              THEN [b EXCEPT !.panic = TRUE]   \* b.bytes[bytePos:] out of range
              ELSE [b EXCEPT !.bytes = Slice(b.bytes, bytePos, Len(b.bytes)),
                             !.bitIndex = b.bitIndex - Shl3(bytePos)]
         ELSE b

Write(b, p) ==
    Bind(IF b.discardRead THEN discardReadBytes(b) ELSE b, LAMBDA b1 :
    IF b1.panic THEN b1
    ELSE [b1 EXCEPT !.bytes = b1.bytes \o p, !.hasEnded = FALSE])

SignalEnd(b) == [b EXCEPT !.totalSize = Len(b.bytes)]

Size(b) == IF b.totalSize > 0 THEN b.totalSize ELSE Len(b.bytes)

Remaining(b) == Len(b.bytes) - Shr3(b.bitIndex)

\* io.ReadFull(b.reader, p) into the scratch slice p = b.available: the
\* number of bytes delivered and the error, "nil" when p was filled.
ReadFull(b) ==
    LET end == IF b.failAt = -1 THEN Len(b.src) ELSE Min(b.failAt, Len(b.src))
        n == Min(Len(b.available), IF end > b.rpos THEN end - b.rpos ELSE 0)
    IN [n |-> n,
        err |-> IF n = Len(b.available) THEN "nil"
                ELSE IF b.failAt # -1 THEN "other"
                ELSE IF n = 0 THEN "EOF" ELSE "ErrUnexpectedEOF",
        p |-> [i \in 1..Len(b.available) |->
                 IF i <= n THEN b.src[b.rpos + i] ELSE b.available[i]]]

\* p = p[:n] on io.ErrUnexpectedEOF only: the slice handed to Write.
written(r) ==
    IF r.err = "ErrUnexpectedEOF" THEN SubSeq(r.p, 1, r.n) ELSE r.p

LoadReaderCallback(b) ==
    IF b.hasEnded THEN b
    ELSE Bind(ReadFull(b), LAMBDA r :
         Bind([b EXCEPT !.rpos = b.rpos + r.n, !.available = r.p], LAMBDA b1 :
         IF r.err = "EOF" \/ r.n = 0
         THEN [b1 EXCEPT !.hasEnded = TRUE]
         ELSE Write(b1, written(r))))

seek(b, pos) ==
    LET b0 == [b EXCEPT !.hasEnded = FALSE] IN
    IF b.reader /\ b.totalSize > 0
    THEN IF ~b.seeker
         THEN [b0 EXCEPT !.panic = TRUE]       \* b.reader.(io.Seeker) fails
         ELSE [b0 EXCEPT !.rpos = IF pos >= 0 THEN pos ELSE b.rpos,
                         !.bytes = <<>>, !.bitIndex = 0]
    ELSE IF ~b.reader
         THEN IF pos # 0 THEN b0
              ELSE [b0 EXCEPT !.bytes = <<>>, !.bitIndex = 0]
         ELSE b0

Rewind(b) == seek(b, 0)

tell(b) ==
    IF b.reader /\ b.totalSize > 0
    THEN b.rpos + Shr3(b.bitIndex) - Len(b.bytes)
    ELSE Shr3(b.bitIndex)

BitsLeft(b) == Shl3(Len(b.bytes)) - b.bitIndex

\* has returns the buffer (the load callback may have run) and the answer.
has(b, count) ==
    IF BitsLeft(b) >= count THEN [b |-> b, ok |-> TRUE]
    ELSE Bind(IF b.cb = "reader" THEN LoadReaderCallback(b) ELSE b, LAMBDA b1 :
         IF b.cb # "none" /\ BitsLeft(b1) >= count
         THEN [b |-> b1, ok |-> TRUE]
         ELSE [b |-> IF b1.totalSize # 0 /\ Len(b1.bytes) = b1.totalSize
                     THEN [b1 EXCEPT !.hasEnded = TRUE] ELSE b1,
               ok |-> FALSE])

RECURSIVE readLoop(_, _, _, _)
readLoop(bytes, bitIndex, count, value) ==
    IF count = 0 THEN [bitIndex |-> bitIndex, value |-> value]
    ELSE LET currentByte == bytes[Shr3(bitIndex) + 1]
             remaining   == 8 - (bitIndex % 8)
             rd          == IF remaining < count THEN remaining ELSE count
             shift       == remaining - rd
             chunk       == (currentByte \div (2 ^ shift)) % (2 ^ rd)
         IN  readLoop(bytes, bitIndex + rd, count - rd, value * (2 ^ rd) + chunk)

\* read returns the buffer and the value read.
read(b, count) ==
    Bind(has(b, count), LAMBDA h :
    IF ~h.ok \/ h.b.panic THEN [b |-> h.b, v |-> 0]
    ELSE Bind(readLoop(h.b.bytes, h.b.bitIndex, count, 0), LAMBDA r :
         [b |-> [h.b EXCEPT !.bitIndex = r.bitIndex], v |-> r.value]))

read1(b) ==
    Bind(has(b, 1), LAMBDA h :
    IF ~h.ok \/ h.b.panic THEN [b |-> h.b, v |-> 0]
    ELSE LET currentByte == h.b.bytes[Shr3(h.b.bitIndex) + 1]
             shift       == 7 - (h.b.bitIndex % 8)
         IN  [b |-> [h.b EXCEPT !.bitIndex = h.b.bitIndex + 1],
              v |-> (currentByte \div (2 ^ shift)) % 2])

align(b) == [b EXCEPT !.bitIndex = Shl3(Shr3(b.bitIndex + 7))]

skip(b, count) ==
    Bind(has(b, count), LAMBDA h :
    IF h.ok /\ ~h.b.panic THEN [h.b EXCEPT !.bitIndex = h.b.bitIndex + count]
    ELSE h.b)

RECURSIVE skipBytesLoop(_, _, _)
skipBytesLoop(b, v, skipped) ==
    Bind(has(b, 8), LAMBDA h :
    IF h.ok /\ ~h.b.panic /\ h.b.bytes[Shr3(h.b.bitIndex) + 1] = v
    THEN skipBytesLoop([h.b EXCEPT !.bitIndex = h.b.bitIndex + 8], v, skipped + 1)
    ELSE [b |-> h.b, v |-> skipped])

skipBytes(b, v) == skipBytesLoop(align(b), v, 0)

RECURSIVE nextStartCodeLoop(_)
nextStartCodeLoop(b) ==
    Bind(has(b, Shl3(5)), LAMBDA h :
    IF ~h.ok \/ h.b.panic THEN [b |-> h.b, v |-> -1]
    ELSE LET data == h.b.bytes
             byteIndex == Shr3(h.b.bitIndex)
         IN  IF data[byteIndex + 1] = 0 /\ data[byteIndex + 2] = 0
                /\ data[byteIndex + 3] = 1
             THEN [b |-> [h.b EXCEPT !.bitIndex = Shl3(byteIndex + 4)],
                   v |-> data[byteIndex + 4]]
             ELSE nextStartCodeLoop([h.b EXCEPT !.bitIndex = h.b.bitIndex + 8]))

nextStartCode(b) == nextStartCodeLoop(align(b))

RECURSIVE findStartCode(_, _)
findStartCode(b, code) ==
    Bind(nextStartCode(b), LAMBDA r :
    IF r.v = code \/ r.v = -1 THEN r ELSE findStartCode(r.b, code))

hasStartCode(b, code) ==
    Bind(findStartCode([b EXCEPT !.discardRead = FALSE], code), LAMBDA r :
    [b |-> [r.b EXCEPT !.bitIndex = b.bitIndex, !.discardRead = b.discardRead],
     v |-> r.v])

\* The byte-wise scan of findFrameSync from byte i.
RECURSIVE findFrameSyncLoop(_, _)
findFrameSyncLoop(b, i) ==
    IF i < Len(b.bytes) - 1
    THEN IF b.bytes[i + 1] = 255 /\ b.bytes[i + 2] \in {252, 253}
         THEN [b |-> [b EXCEPT !.bitIndex = Shl3(i + 1) + 3], ok |-> TRUE]
         ELSE findFrameSyncLoop(b, i + 1)
    ELSE [b |-> [b EXCEPT !.bitIndex = Shl3(i + 1)], ok |-> FALSE]

findFrameSync(b) == findFrameSyncLoop(b, Shr3(b.bitIndex))

peekNonZero(b, bitCount) ==
    Bind(has(b, bitCount), LAMBDA h :
    IF ~h.ok \/ h.b.panic THEN [b |-> h.b, ok |-> FALSE]
    ELSE Bind(read(h.b, bitCount), LAMBDA r :
         [b |-> [r.b EXCEPT !.bitIndex = r.b.bitIndex - bitCount],
          ok |-> r.v # 0]))

\* video.go: videoMacroblockTypeIntra, the VLC table the buffer
\* specification walks.
videoMacroblockTypeIntra ==
    << [Index |-> 2, Value |-> 0], [Index |-> 0, Value |-> 1],
       [Index |-> -1, Value |-> 0], [Index |-> 0, Value |-> 17] >>

RECURSIVE readVlcLoop(_, _, _)
readVlcLoop(b, table, state) ==
    Bind(read1(b), LAMBDA r :
    Bind(table[state.Index + r.v + 1], LAMBDA st :
    IF st.Index <= 0 THEN [b |-> r.b, v |-> st.Value]
    ELSE readVlcLoop(r.b, table, st)))

readVlc(b, table) == readVlcLoop(b, table, [Index |-> 0, Value |-> 0])

(***************************************************************************)
(* Audio.decodeHeader on the bits of the buffer.                           *)
(***************************************************************************)
frameSync == 2047
mpeg1 == 3
layerII == 2
modeStereo == 0
modeJointStereo == 1
modeMono == 3

samplerate == <<44100, 48000, 32000, 0, 22050, 24000, 16000, 0>>
bitrate == <<32, 48, 56, 64, 80, 96, 112, 128, 160, 192, 224, 256, 320, 384,
             8, 16, 24, 32, 40, 48, 56, 64, 80, 96, 112, 128, 144, 160>>

\* The header fields of an Audio after NewAudio's allocation, before its
\* first decodeHeader.
NewAudioHeader ==
    [ samplerateIndex |-> 3, bitrateIndex |-> 0, version |-> 0, layer |-> 0,
      mode |-> 0, channels |-> 0, bound |-> 0, hasHeader |-> FALSE,
      panic |-> FALSE ]

\* The part of decodeHeader after the mode was read: the header is taken.
decodeHeaderAccept(a, b, bitrateIndex, samplerateIndex, padding, mode, hasCRC) ==
    Bind(IF mode = modeJointStereo THEN read(b, 2)
         ELSE [b |-> skip(b, 2), v |-> 0], LAMBDA rx :
    Bind(skip(rx.b, 4), LAMBDA b1 :
    Bind(IF hasCRC THEN skip(b1, 16) ELSE b1, LAMBDA b2 :
    Bind([a EXCEPT !.bitrateIndex = bitrateIndex,
                   !.samplerateIndex = samplerateIndex,
                   !.mode = mode, !.hasHeader = TRUE,
                   !.channels = IF mode = modeStereo \/ mode = modeJointStereo
                                THEN 2
                                ELSE IF mode = modeMono THEN 1 ELSE a.channels,
                   !.bound = IF mode = modeJointStereo THEN (rx.v + 1) * 4
                             ELSE IF mode = modeMono THEN 0 ELSE 32],
         LAMBDA a1 :
    IF bitrateIndex < 0     \* bitrate[a.bitrateIndex] out of range
    THEN [a |-> [a1 EXCEPT !.panic = TRUE], b |-> b2, v |-> 0]
    ELSE [a |-> a1, b |-> b2,
          v |-> ((144000 * bitrate[bitrateIndex + 1])
                   \div samplerate[samplerateIndex + 1])
                + padding - (IF hasCRC THEN 6 ELSE 4)]))))

\* A header never differs from the one before.
headerChangedNever(a, bitrateIndex, samplerateIndex, mode) == FALSE

\* a.hasHeader && (a.bitrateIndex != bitrateIndex || ...): the header
\* differs from the one taken before.
headerChanged(a, bitrateIndex, samplerateIndex, mode) ==
    a.hasHeader /\ (a.bitrateIndex # bitrateIndex
                    \/ a.samplerateIndex # samplerateIndex
                    \/ a.mode # mode)

\* The part of decodeHeader after the syncword was found.
decodeHeaderFields(a, b) ==
    Bind(read(b, 2), LAMBDA rv :
    Bind(read(rv.b, 2), LAMBDA rl :
    Bind(read1(rl.b), LAMBDA rc :
    Bind([a EXCEPT !.version = rv.v, !.layer = rl.v], LAMBDA a1 :
    IF rv.v # mpeg1 \/ rl.v # layerII THEN [a |-> a1, b |-> rc.b, v |-> 0]
    ELSE
    Bind(read(rc.b, 4), LAMBDA rb :
    IF rb.v - 1 > 13 THEN [a |-> a1, b |-> rb.b, v |-> 0]
    ELSE
    Bind(read(rb.b, 2), LAMBDA rs :
    IF rs.v = 3 THEN [a |-> a1, b |-> rs.b, v |-> 0]
    ELSE
    Bind(read1(rs.b), LAMBDA rp :
    Bind(read(skip(rp.b, 1), 2), LAMBDA rm :
    IF headerChanged(a1, rb.v - 1, rs.v, rm.v)
    THEN [a |-> a1, b |-> rm.b, v |-> 0]
    ELSE decodeHeaderAccept(a1, rm.b, rb.v - 1, rs.v, rp.v, rm.v,
                            rc.v = 0)))))))))

decodeHeader(a, b) ==
    Bind(has(b, 48), LAMBDA h :
    IF ~h.ok THEN [a |-> a, b |-> h.b, v |-> 0]
    ELSE
    Bind(skipBytes(h.b, 0), LAMBDA sk :
    Bind(read(sk.b, 11), LAMBDA sy :
    Bind(IF sy.v # frameSync THEN findFrameSync(sy.b)
         ELSE [b |-> sy.b, ok |-> TRUE], LAMBDA fs :
    IF ~fs.ok THEN [a |-> a, b |-> fs.b, v |-> 0]
    ELSE decodeHeaderFields(a, fs.b)))))

(***************************************************************************)
(* The buffer specification: one Buffer, fed by Write or by a reader, and  *)
(* every operation of buffer.go on it; an Audio reads its header from it.  *)
(***************************************************************************)
WriteData == { <<0, 0>>, <<1, 224>>, <<255, 253>> }
ReaderContents == { <<0, 0, 1, 224, 7, 255, 253>>, <<255, 253, 16, 192, 0, 0>> }
BitCounts == {3, 11}
StartCodes == {224, 179}

BufIdle == /\ demux = <<>>
           /\ pkts = <<>>
           /\ twin = <<>>

InitBuffer ==
    /\ \/ buf = NewBuffer(FALSE, FALSE, <<>>)
       \/ \E c \in ReaderContents :
            buf = SetLoadCallback(NewBuffer(TRUE, TRUE, c), "reader")
    /\ lastOp = <<"NewBuffer">>
    /\ ahdr = NewAudioHeader
    /\ fed = 0
    /\ BufIdle
    /\ PlayIdle

Live == ~buf.panic /\ ~ahdr.panic

BufWrite ==
    /\ Live
    /\ ~buf.reader
    /\ \E p \in WriteData :
         /\ fed + Len(p) <= MaxBytes
         /\ buf' = Write(buf, p)
         /\ fed' = fed + Len(p)
         /\ lastOp' = <<"Write">>
    /\ UNCHANGED <<ahdr, demux, pkts, twin, playVars>>

BufSignalEnd ==
    /\ Live
    /\ ~buf.reader
    /\ buf' = SignalEnd(buf)
    /\ lastOp' = <<"SignalEnd">>
    /\ UNCHANGED <<ahdr, demux, pkts, fed, twin, playVars>>

BufRewind ==
    /\ Live
    /\ buf' = Rewind(buf)
    /\ lastOp' = <<"Rewind">>
    /\ UNCHANGED <<ahdr, demux, pkts, fed, twin, playVars>>

BufRead ==
    /\ Live
    /\ \E n \in BitCounts :
         LET r == read(buf, n) IN
         /\ buf' = r.b
         /\ lastOp' = <<"read">>
    /\ UNCHANGED <<ahdr, demux, pkts, fed, twin, playVars>>

BufRead1 ==
    /\ Live
    /\ LET r == read1(buf) IN
         /\ buf' = r.b
         /\ lastOp' = <<"read1">>
    /\ UNCHANGED <<ahdr, demux, pkts, fed, twin, playVars>>

BufSkip ==
    /\ Live
    /\ \E n \in BitCounts :
         /\ buf' = skip(buf, n)
         /\ lastOp' = <<"skip">>
    /\ UNCHANGED <<ahdr, demux, pkts, fed, twin, playVars>>

BufSkipBytes ==
    /\ Live
    /\ \E v \in {0, 255} :
         LET r == skipBytes(buf, v) IN
         /\ buf' = r.b
         /\ lastOp' = <<"skipBytes">>
    /\ UNCHANGED <<ahdr, demux, pkts, fed, twin, playVars>>

BufAlign ==
    /\ Live
    /\ buf' = align(buf)
    /\ lastOp' = <<"align">>
    /\ UNCHANGED <<ahdr, demux, pkts, fed, twin, playVars>>

BufNextStartCode ==
    /\ Live
    /\ LET r == nextStartCode(buf) IN
         /\ buf' = r.b
         /\ lastOp' = <<"nextStartCode">>
    /\ UNCHANGED <<ahdr, demux, pkts, fed, twin, playVars>>

BufFindStartCode ==
    /\ Live
    /\ \E c \in StartCodes :
         LET r == findStartCode(buf, c) IN
         /\ buf' = r.b
         /\ lastOp' = <<"findStartCode">>
    /\ UNCHANGED <<ahdr, demux, pkts, fed, twin, playVars>>

BufHasStartCode ==
    /\ Live
    /\ \E c \in StartCodes :
         LET r == hasStartCode(buf, c) IN
         /\ buf' = r.b
         /\ lastOp' = <<"hasStartCode">>
    /\ UNCHANGED <<ahdr, demux, pkts, fed, twin, playVars>>

BufFindFrameSync ==
    /\ Live
    /\ Index(buf) <= MaxBytes
    /\ LET r == findFrameSync(buf) IN
         /\ buf' = r.b
         /\ lastOp' = <<"findFrameSync">>
    /\ UNCHANGED <<ahdr, demux, pkts, fed, twin, playVars>>

BufPeekNonZero ==
    /\ Live
    /\ \E n \in BitCounts :
         LET r == peekNonZero(buf, n) IN
         /\ buf' = r.b
         /\ lastOp' = <<"peekNonZero">>
    /\ UNCHANGED <<ahdr, demux, pkts, fed, twin, playVars>>

BufReadVlc ==
    /\ Live
    /\ LET r == readVlc(buf, videoMacroblockTypeIntra) IN
         /\ buf' = r.b
         /\ lastOp' = <<"readVlc">>
    /\ UNCHANGED <<ahdr, demux, pkts, fed, twin, playVars>>

\* Audio.HasHeader / the header step of Audio.Decode: decodeHeader.
AudioDecodeHeader ==
    /\ Live
    /\ LET r == decodeHeader(ahdr, buf) IN
         /\ buf' = r.b
         /\ ahdr' = r.a
         /\ lastOp' = <<"decodeHeader", r.v>>
    /\ UNCHANGED <<demux, pkts, fed, twin, playVars>>

NextBuffer ==
    \/ BufWrite \/ BufSignalEnd \/ BufRewind \/ BufRead \/ BufRead1
    \/ BufSkip \/ BufSkipBytes \/ BufAlign \/ BufNextStartCode
    \/ BufFindStartCode \/ BufHasStartCode \/ BufFindFrameSync
    \/ BufPeekNonZero \/ BufReadVlc \/ AudioDecodeHeader

SpecBuffer == InitBuffer /\ [][NextBuffer]_vars

\* The exported route to the same operations: a buffer fed by Write, read
\* by the header step of Audio.Decode / Audio.HasHeader.
NextAudioHeader ==
    \/ BufWrite \/ BufSignalEnd \/ BufRewind \/ AudioDecodeHeader

SpecAudioHeader == InitBuffer /\ [][NextAudioHeader]_vars

\* C6: after any sequence of Buffer operations, and so after any decoder
\* call, the cursor's byte index lies in the byte store:
\* 0 <= bitIndex>>3 <= len(bytes).
C6_CursorInBytes == 0 <= Index(buf) /\ Index(buf) <= Len(buf.bytes)

(***************************************************************************)
(* demux.go: Demux.  Times are kept in 90 kHz clock ticks (decodeTime      *)
(* divides the same integer by 90000.0).  A function returns the demuxer,  *)
(* its buffer and its result.                                              *)
(***************************************************************************)
PacketInvalidTS == -1
PacketPrivate == 189
PacketAudio1 == 192
PacketAudio2 == 193
PacketAudio3 == 194
PacketAudio4 == 194
PacketVideo1 == 224
startPack == 186
startEnd == 185
startSystem == 187

NilPacket == [Type |-> 0, Pts |-> 0, Data |-> <<>>, length |-> 0]

NewDemuxFields ==
    [ sysClockRef     |-> 0,
      lastDecodedPts  |-> 0,
      startTime       |-> PacketInvalidTS,
      duration        |-> PacketInvalidTS,
      startCode       |-> -1,
      hasPackHeader   |-> FALSE,
      hasSystemHeader |-> FALSE,
      hasHeaders      |-> FALSE,
      numAudioStreams |-> 0,
      numVideoStreams |-> 0,
      currentPacket   |-> NilPacket,
      nextPacket      |-> NilPacket,
      panic           |-> FALSE ]

\* decodeTime without the three high bits of the clock.
decodeTimeLow(b) ==
    Bind(read(b, 3), LAMBDA r1 :
    Bind(read(skip(r1.b, 1), 15), LAMBDA r2 :
    Bind(read(skip(r2.b, 1), 15), LAMBDA r3 :
    [b |-> skip(r3.b, 1), v |-> r2.v * (2 ^ 15) + r3.v])))

decodeTime(b) ==
    Bind(read(b, 3), LAMBDA r1 :
    Bind(read(skip(r1.b, 1), 15), LAMBDA r2 :
    Bind(read(skip(r2.b, 1), 15), LAMBDA r3 :
    [b |-> skip(r3.b, 1),
     v |-> r1.v * (2 ^ 30) + r2.v * (2 ^ 15) + r3.v])))

\* HasHeaders, the pack header.
decodePackHeader(d, b) ==
    Bind(IF d.startCode # startPack THEN findStartCode(b, startPack)
         ELSE [b |-> b, v |-> startPack], LAMBDA f :
    IF f.v = -1 THEN [d |-> d, b |-> f.b, ok |-> FALSE]
    ELSE
    Bind(has(f.b, 64), LAMBDA h :
    IF ~h.ok
    THEN [d |-> [d EXCEPT !.startCode = startPack], b |-> h.b, ok |-> FALSE]
    ELSE
    Bind(read(h.b, 4), LAMBDA r :
    IF r.v # 2
    THEN [d |-> [d EXCEPT !.startCode = -1], b |-> r.b, ok |-> FALSE]
    ELSE
    Bind(decodeTime(r.b), LAMBDA t :
    [d |-> [d EXCEPT !.startCode = -1, !.sysClockRef = t.v,
                     !.hasPackHeader = TRUE],
     b |-> skip(skip(skip(t.b, 1), 22), 1),
     ok |-> TRUE]))))

\* HasHeaders, the system header.
decodeSystemHeader(d, b) ==
    Bind(IF d.startCode # startSystem THEN findStartCode(b, startSystem)
         ELSE [b |-> b, v |-> startSystem], LAMBDA f :
    IF f.v = -1 THEN [d |-> d, b |-> f.b, ok |-> FALSE]
    ELSE
    Bind(has(f.b, 56), LAMBDA h :
    IF ~h.ok
    THEN [d |-> [d EXCEPT !.startCode = startSystem], b |-> h.b, ok |-> FALSE]
    ELSE
    Bind(read(skip(skip(h.b, 16), 24), 6), LAMBDA ra :
    Bind(read(skip(ra.b, 5), 5), LAMBDA rv :
    [d |-> [d EXCEPT !.startCode = -1, !.numAudioStreams = ra.v,
                     !.numVideoStreams = rv.v, !.hasSystemHeader = TRUE],
     b |-> rv.b,
     ok |-> TRUE]))))

HasHeaders(d, b) ==
    IF d.hasHeaders THEN [d |-> d, b |-> b, ok |-> TRUE]
    ELSE
    Bind(IF d.hasPackHeader THEN [d |-> d, b |-> b, ok |-> TRUE]
         ELSE decodePackHeader(d, b), LAMBDA p :
    IF ~p.ok THEN p
    ELSE
    Bind(IF p.d.hasSystemHeader THEN p ELSE decodeSystemHeader(p.d, p.b),
         LAMBDA q :
    IF ~q.ok THEN q
    ELSE [d |-> [q.d EXCEPT !.hasHeaders = TRUE], b |-> q.b, ok |-> TRUE]))

NewDemux(b) == HasHeaders(NewDemuxFields, b)

DemuxRewind(d, b) ==
    [d |-> [d EXCEPT !.currentPacket.length = 0, !.nextPacket.length = 0,
                     !.startCode = -1],
     b |-> Rewind(b)]

bufferSeek(d, b, pos) ==
    [d |-> [d EXCEPT !.currentPacket.length = 0, !.nextPacket.length = 0,
                     !.startCode = -1],
     b |-> seek(b, pos)]

\* ret is "packet" when &d.currentPacket is returned and "nil" otherwise.
packet(d, b) ==
    Bind(has(b, Shl3(d.nextPacket.length)), LAMBDA h :
    IF ~h.ok THEN [d |-> d, b |-> h.b, ret |-> "nil"]
    ELSE IF d.nextPacket.length < 0
    THEN \* Bytes()[index : index+length] with index+length < index
         [d |-> [d EXCEPT !.panic = TRUE], b |-> h.b, ret |-> "nil"]
    ELSE [d |-> [d EXCEPT
                   !.currentPacket =
                       [Type   |-> d.nextPacket.Type,
                        Pts    |-> d.nextPacket.Pts,
                        Data   |-> Slice(h.b.bytes, Index(h.b),
                                         Index(h.b) + d.nextPacket.length),
                        length |-> d.nextPacket.length],
                   !.nextPacket.length = 0],
          b |-> h.b, ret |-> "packet"])

\* decodePacket from the PTS/DTS marker on; length is nextPacket.length so far.
decodePacketTime(d, b, length) ==
    Bind(read(b, 2), LAMBDA m :
    IF m.v = 3
    THEN Bind(decodeTime(m.b), LAMBDA t :
         packet([d EXCEPT !.nextPacket.Pts = t.v, !.lastDecodedPts = t.v,
                          !.nextPacket.length = length - 10],
                skip(t.b, 40)))
    ELSE IF m.v = 2
    THEN Bind(decodeTime(m.b), LAMBDA t :
         packet([d EXCEPT !.nextPacket.Pts = t.v, !.lastDecodedPts = t.v,
                          !.nextPacket.length = length - 5],
                t.b))
    ELSE IF m.v = 0
    THEN packet([d EXCEPT !.nextPacket.Pts = PacketInvalidTS,
                          !.nextPacket.length = length - 1],
                skip(m.b, 4))
    ELSE [d |-> [d EXCEPT !.nextPacket.length = length], b |-> m.b,
          ret |-> "nil"])

decodePacket(d, b, typ) ==
    Bind(has(b, Shl3(16)), LAMBDA h :
    IF ~h.ok THEN [d |-> d, b |-> h.b, ret |-> "nil"]
    ELSE
    Bind(read(h.b, 16), LAMBDA len :
    Bind(skipBytes(len.b, 255), LAMBDA st :
    Bind(read(st.b, 2), LAMBDA ps :
    decodePacketTime([d EXCEPT !.startCode = -1, !.nextPacket.Type = typ],
                     IF ps.v = 1 THEN skip(ps.b, 16) ELSE ps.b,
                     len.v - st.v - (IF ps.v = 1 THEN 2 ELSE 0))))))

RECURSIVE DemuxDecodeLoop(_, _)
DemuxDecodeLoop(d, b) ==
    Bind(nextStartCode(b), LAMBDA r :
    IF \/ r.v = PacketVideo1 \/ r.v = PacketPrivate
       \/ (r.v >= PacketAudio1 /\ r.v <= PacketAudio4)
    THEN decodePacket([d EXCEPT !.startCode = r.v], r.b, r.v)
    ELSE IF r.v = -1
    THEN [d |-> [d EXCEPT !.startCode = -1], b |-> r.b, ret |-> "nil"]
    ELSE DemuxDecodeLoop([d EXCEPT !.startCode = r.v], r.b))

\* Demux.Decode once the bytes of the current packet were skipped.
DemuxDecodeNext(d, b) ==
    IF d.nextPacket.length # 0 THEN packet(d, b)
    ELSE IF d.startCode # -1 THEN decodePacket(d, b, d.startCode)
    ELSE DemuxDecodeLoop(d, b)

DemuxDecode(d, b) ==
    Bind(HasHeaders(d, b), LAMBDA hh :
    IF ~hh.ok THEN [d |-> hh.d, b |-> hh.b, ret |-> "nil"]
    ELSE IF hh.d.currentPacket.length # 0
    THEN Bind(has(hh.b, Shl3(hh.d.currentPacket.length)), LAMBDA h :
         IF ~h.ok THEN [d |-> hh.d, b |-> h.b, ret |-> "nil"]
         ELSE DemuxDecodeNext([hh.d EXCEPT !.currentPacket.length = 0],
                              skip(h.b, Shl3(hh.d.currentPacket.length))))
    ELSE DemuxDecodeNext(hh.d, hh.b))

(***************************************************************************)
(* The demuxer specification: a program stream (pack header, system        *)
(* header, PES packets) is written into the demuxer's buffer in pieces and *)
(* Demux.Decode is called between the pieces.                              *)
(***************************************************************************)
PayloadLen == 14
ChunkSize == 10
MaxPackets == 2

Payload == [i \in 1..PayloadLen |-> 170]

\* A PES packet as it is laid out in the stream: stream id, number of 0xFF
\* stuffing bytes, P-STD field present, PTS/DTS marker, declared length.
PES(id, stuffing, pstd, marker, length) ==
    [id |-> id, stuffing |-> stuffing, pstd |-> pstd, marker |-> marker,
     length |-> length]

MarkerBytes(marker) ==
    CASE marker = 0 -> <<15>>
      [] marker = 2 -> <<33, 0, 1, 0, 7>>
      [] marker = 3 -> <<49, 0, 1, 0, 7, 17, 0, 1, 0, 7>>
      [] OTHER      -> <<31>>

\* Bytes between the length field and the payload.
HeaderLen(stuffing, pstd, marker) ==
    stuffing + (IF pstd THEN 2 ELSE 0) + Len(MarkerBytes(marker))

WellFormedPES(id, stuffing, pstd, marker) ==
    PES(id, stuffing, pstd, marker,
        HeaderLen(stuffing, pstd, marker) + PayloadLen)

WellFormed(p) ==
    /\ p.marker \in {0, 2, 3}
    /\ p.length = HeaderLen(p.stuffing, p.pstd, p.marker) + PayloadLen

PackHeaderBytes == <<0, 0, 1, startPack, 33, 0, 1, 0, 1, 128, 0, 1>>
SystemHeaderBytes == <<0, 0, 1, startSystem, 0, 9, 128, 0, 1, 4, 33>>

EncodePES(p) ==
    <<0, 0, 1, p.id, p.length \div 256, p.length % 256>>
      \o [i \in 1..p.stuffing |-> 255]
      \o (IF p.pstd THEN <<96, 32>> ELSE <<>>)
      \o MarkerBytes(p.marker)
      \o Payload

RECURSIVE EncodeStream(_)
EncodeStream(ps) ==
    IF ps = <<>> THEN <<>> ELSE EncodePES(Head(ps)) \o EncodeStream(Tail(ps))

StreamIds == {189, 190, 192, 193, 194, 195, 224}

PacketChoices ==
    { WellFormedPES(id, 0, FALSE, 0) : id \in StreamIds }
      \cup { WellFormedPES(224, 1, TRUE, 2), WellFormedPES(224, 0, TRUE, 3),
             WellFormedPES(192, 0, FALSE, 2),
             PES(224, 0, FALSE, 1, PayloadLen + 1),
             PES(224, 0, FALSE, 0, 0),
             PES(192, 1, TRUE, 3, 5) }

InitDemux ==
    \E n \in 1..MaxPackets : \E ps \in [1..n -> PacketChoices] :
      LET hdr == PackHeaderBytes \o SystemHeaderBytes
          nd  == NewDemux(Write(NewBuffer(FALSE, FALSE, <<>>), hdr))
      IN  /\ pkts = [packets  |-> ps,
                     stream   |-> hdr \o EncodeStream(ps),
                     returned |-> <<>>]
          /\ fed = Len(hdr)
          /\ buf = nd.b
          /\ demux = nd.d
          /\ lastOp = <<"NewDemux", nd.ok>>
          /\ ahdr = NewAudioHeader
          /\ twin = <<>>
          /\ PlayIdle

DemuxLive == ~buf.panic /\ ~demux.panic

\* The application writes the next piece of the stream.
DemuxWrite ==
    /\ DemuxLive
    /\ fed < Len(pkts.stream)
    /\ \E n \in {Min(ChunkSize, Len(pkts.stream) - fed), Len(pkts.stream) - fed} :
         /\ buf' = Write(buf, Slice(pkts.stream, fed, fed + n))
         /\ fed' = fed + n
    /\ lastOp' = <<"Write">>
    /\ UNCHANGED <<ahdr, demux, pkts, twin, playVars>>

DemuxStepDecode ==
    /\ DemuxLive
    /\ LET r == DemuxDecode(demux, buf) IN
         /\ demux' = r.d
         /\ buf' = r.b
         /\ lastOp' = <<"Decode", r.ret>>
         /\ pkts' = IF r.ret = "packet"
                    THEN [pkts EXCEPT !.returned =
                                        Append(@, r.d.currentPacket.Type)]
                    ELSE pkts
    /\ UNCHANGED <<ahdr, fed, twin, playVars>>

NextDemux == DemuxWrite \/ DemuxStepDecode

SpecDemux == InitDemux /\ [][NextDemux]_vars

\* C8: for every packet header Demux.Decode parses, the payload length left
\* after the stuffing and header bytes is >= 0, the payload range lies in
\* the buffer when the Packet is built, and the demuxer does not panic.
C8_PayloadInBuffer ==
    /\ ~demux.panic
    /\ demux.nextPacket.length >= 0
    /\ lastOp = <<"Decode", "packet">> =>
         Index(buf) + demux.currentPacket.length <= Len(buf.bytes)

\* The stream ids for which the specification promises a packet.
IsDelivered(id) == id \in {189, 192, 193, 194, 195, 224}

RECURSIVE DeliveredIds(_)
DeliveredIds(ps) ==
    IF ps = <<>> THEN <<>>
    ELSE (IF IsDelivered(Head(ps).id) THEN <<Head(ps).id>> ELSE <<>>)
           \o DeliveredIds(Tail(ps))

\* The whole stream was written and Decode has found no further packet.
DemuxDrained ==
    /\ fed = Len(pkts.stream)
    /\ lastOp = <<"Decode", "nil">>
    /\ \A i \in 1..Len(pkts.packets) : WellFormed(pkts.packets[i])

\* C9: Demux.Decode returns a packet for every well-formed PES packet with
\* stream id 0xBD, 0xC0, 0xC1, 0xC2, 0xC3 or 0xE0 and skips every other
\* start code: once a well-formed stream is drained, the packets returned
\* are exactly its packets with these ids, in order.
C9_AcceptedIdsDelivered ==
    DemuxDrained => pkts.returned = DeliveredIds(pkts.packets)

\* decodePacket has read the two PTS/DTS marker bits and nothing behind them:
\* the read position is 4 bits into the marker byte (after the two P-STD test
\* bits, with or without the 16 skipped P-STD bits).  Markers 0, 2 and 3 all
\* consume the byte to its end, so only the return of the invalid marker 0b01
\* leaves the position there.
MarkerRejected == lastOp[1] = "Decode" /\ buf.bitIndex % 8 = 4

\* C28: after decodePacket returned nil for a packet whose PTS/DTS marker is
\* 0b01, no packet is pending (nextPacket.length is 0), and no later
\* Demux.Decode returns a Packet built from the rejected one.
C28_MalformedDropped ==
    MarkerRejected => /\ demux.nextPacket.length = 0
                      /\ lastOp[2] = "nil"

(***************************************************************************)
(* The decoders and the player on start-code units.  A video buffer holds  *)
(* pictures [id, type], an audio buffer holds audio frames [id]; a picture *)
(* decoded into a frame leaves its id there.  Times are counted in frame   *)
(* periods: 1/framerate s, and SamplesPerFrame/samplerate s taken equal to *)
(* it.  A world w is the record [video, audio, mpeg, log]: the load        *)
(* callback of a decoder's buffer reaches the demuxer and both buffers.    *)
(*                                                                         *)
(* Buffer on units: q = the units in bytes not yet read; rd, all = what    *)
(* the reader still holds and its whole content; written = bytes is not    *)
(* empty; atTotal = totalSize # 0 and len(bytes) = totalSize; cb = the     *)
(* load callback: "reader", "video" (readVideoPacket), "audio"             *)
(* (readAudioPacket).                                                      *)
(***************************************************************************)
pictureTypeIntra == 1
pictureTypePredictive == 2
pictureTypeB == 3

NewUnitBuffer(cb, content) ==
    [q |-> <<>>, rd |-> content, all |-> content, written |-> FALSE,
     atTotal |-> FALSE, hasEnded |-> FALSE, cb |-> cb]

WriteUnit(b, u) ==
    [b EXCEPT !.q = Append(@, u), !.written = TRUE, !.atTotal = FALSE,
              !.hasEnded = FALSE]

SignalEndUnits(b) == [b EXCEPT !.atTotal = b.written]

\* Buffer.Rewind: seek(0) on a seekable reader, or on a written buffer.
RewindUnits(b) ==
    IF b.cb = "reader"
    THEN [b EXCEPT !.q = <<>>, !.rd = b.all, !.hasEnded = FALSE]
    ELSE [b EXCEPT !.q = <<>>, !.written = FALSE, !.atTotal = FALSE,
                   !.hasEnded = FALSE]

LoadReaderUnits(b) ==
    IF b.hasEnded THEN b
    ELSE IF b.rd = <<>> THEN [b EXCEPT !.hasEnded = TRUE]
    ELSE WriteUnit([b EXCEPT !.rd = Tail(@)], Head(b.rd))

\* MPEG.readPackets on the demuxer's packets [Type, Pts, unit].
RECURSIVE readPackets(_, _)
readPackets(w, requestedType) ==
    IF w.mpeg.demux.pos >= Len(w.mpeg.demux.src)
    THEN [w EXCEPT !.mpeg.demux.hasEnded = TRUE,
                   !.video.buf = SignalEndUnits(@),
                   !.audio.buf = SignalEndUnits(@)]
    ELSE
    Bind(w.mpeg.demux.src[w.mpeg.demux.pos + 1], LAMBDA p :
    Bind(IF p.Type = w.mpeg.videoPacketType
         THEN [w EXCEPT !.mpeg.demux.pos = @ + 1,
                        !.video.buf = WriteUnit(@, p.unit)]
         ELSE IF p.Type = w.mpeg.audioPacketType
         THEN [w EXCEPT !.mpeg.demux.pos = @ + 1,
                        !.audio.buf = WriteUnit(@, p.unit)]
         ELSE [w EXCEPT !.mpeg.demux.pos = @ + 1], LAMBDA w1 :
    IF p.Type = requestedType THEN w1 ELSE readPackets(w1, requestedType)))

BufOf(w, which) == IF which = "video" THEN w.video.buf ELSE w.audio.buf

\* One call of the load callback of the video or of the audio buffer.
LoadUnits(w, which) ==
    CASE BufOf(w, which).cb = "reader" ->
           IF which = "video"
           THEN [w EXCEPT !.video.buf = LoadReaderUnits(@)]
           ELSE [w EXCEPT !.audio.buf = LoadReaderUnits(@)]
      [] BufOf(w, which).cb = "video" -> readPackets(w, w.mpeg.videoPacketType)
      [] BufOf(w, which).cb = "audio" -> readPackets(w, w.mpeg.audioPacketType)
      [] OTHER -> w

\* Buffer.has for n units, as the scanning loops use it: the callback is
\* called as long as it brings data; a has that fails at the total size
\* sets hasEnded.
RECURSIVE hasUnits(_, _, _)
hasUnits(w, which, n) ==
    IF Len(BufOf(w, which).q) >= n THEN w
    ELSE
    Bind(LoadUnits(w, which), LAMBDA w1 :
    IF Len(BufOf(w1, which).q) > Len(BufOf(w, which).q)
    THEN hasUnits(w1, which, n)
    ELSE IF ~BufOf(w1, which).atTotal THEN w1
    ELSE IF which = "video" THEN [w1 EXCEPT !.video.buf.hasEnded = TRUE]
    ELSE [w1 EXCEPT !.audio.buf.hasEnded = TRUE])

(***************************************************************************)
(* video.go: Video, on pictures.  A frame is the id of the picture in it   *)
(* (0: nothing decoded into it yet); a returned frame is its id, -1 is nil.*)
(***************************************************************************)
NewVideoFields(b) ==
    [ buf |-> b, time |-> 0, framesDecoded |-> 0, pictureType |-> 0,
      hasSequenceHeader |-> FALSE, hasReferenceFrame |-> FALSE,
      assumeNoBFrames |-> FALSE,
      frameCurrent |-> 0, frameForward |-> 0, frameBackward |-> 0 ]

\* Video.HasHeader: the sequence header opens the first unit.
VideoHasHeader(w) ==
    IF w.video.hasSequenceHeader THEN w
    ELSE Bind(hasUnits(w, "video", 1), LAMBDA w1 :
         IF w1.video.buf.q = <<>> THEN w1
         ELSE [w1 EXCEPT !.video.hasSequenceHeader = TRUE])

VideoSetTime(v, time) == [v EXCEPT !.framesDecoded = v.time, !.time = time]

VideoRewind(v) ==
    [v EXCEPT !.buf = RewindUnits(@), !.time = 0, !.framesDecoded = 0,
              !.hasReferenceFrame = FALSE]

IsReference(type) ==
    type = pictureTypeIntra \/ type = pictureTypePredictive

\* decodePicture without the rotation of the reference frames.
decodePictureNoRotation(v, pic) ==
    [v EXCEPT !.buf.q = Tail(@),
              !.pictureType = pic.type,
              !.frameCurrent = pic.id]

\* decodePicture of the first picture in the buffer: the slices are decoded
\* into frameCurrent, and a reference picture rotates the three frames.
decodePicture(v, pic) ==
    [v EXCEPT !.buf.q = Tail(@),
              !.pictureType = pic.type,
              !.frameForward = IF IsReference(pic.type)
                               THEN v.frameBackward ELSE @,
              !.frameBackward = IF IsReference(pic.type) THEN pic.id ELSE @,
              !.frameCurrent = IF IsReference(pic.type)
                               THEN v.frameForward ELSE pic.id]

\* The loop of Video.Decode; frame is the frame chosen, -1 for a nil return.
RECURSIVE VideoDecodeLoop(_)
VideoDecodeLoop(w) ==
    Bind(hasUnits(w, "video", 1), LAMBDA w1 :
    IF w1.video.buf.q = <<>>
    THEN IF /\ w1.video.hasReferenceFrame /\ ~w1.video.assumeNoBFrames
            /\ w1.video.buf.hasEnded /\ IsReference(w1.video.pictureType)
         THEN [w |-> [w1 EXCEPT !.video.hasReferenceFrame = FALSE],
               frame |-> w1.video.frameBackward]
         ELSE [w |-> w1, frame |-> -1]
    ELSE
    Bind(hasUnits(w1, "video", 2), LAMBDA w2 :
    IF Len(w2.video.buf.q) < 2 /\ ~w2.video.buf.hasEnded
    THEN [w |-> w2, frame |-> -1]
    ELSE
    Bind(decodePicture(w2.video, Head(w2.video.buf.q)), LAMBDA v :
    IF v.assumeNoBFrames
    THEN [w |-> [w2 EXCEPT !.video = v], frame |-> v.frameBackward]
    ELSE IF v.pictureType = pictureTypeB
    THEN [w |-> [w2 EXCEPT !.video = v], frame |-> v.frameCurrent]
    ELSE IF v.hasReferenceFrame
    THEN [w |-> [w2 EXCEPT !.video = v], frame |-> v.frameForward]
    ELSE VideoDecodeLoop(
           [w2 EXCEPT !.video = [v EXCEPT !.hasReferenceFrame = TRUE]]))))

\* Video.Decode: [w, frame, Time]; Time is frame.Time.
VideoDecode(w) ==
    Bind(VideoHasHeader(w), LAMBDA w1 :
    IF ~w1.video.hasSequenceHeader
    THEN [w |-> w1, frame |-> -1, Time |-> 0]
    ELSE
    Bind(VideoDecodeLoop(w1), LAMBDA r :
    IF r.frame = -1 THEN [w |-> r.w, frame |-> -1, Time |-> 0]
    ELSE [w |-> [r.w EXCEPT !.video.framesDecoded = @ + 1,
                            !.video.time = r.w.video.framesDecoded + 1],
          frame |-> r.frame, Time |-> r.w.video.time]))

(***************************************************************************)
(* The video specification: a Video on a seekable reader holding a         *)
(* sequence of pictures in decode order; Decode and Rewind.                *)
(***************************************************************************)
MaxPictures == 4

World == [video |-> video, audio |-> audio, mpeg |-> mpeg, log |-> log]

Becomes(w) ==
    /\ video' = w.video
    /\ audio' = w.audio
    /\ mpeg' = w.mpeg
    /\ log' = w.log

\* The world w is the initial state.
Starts(w) ==
    /\ video = w.video
    /\ audio = w.audio
    /\ mpeg = w.mpeg
    /\ log = w.log

byteVars == <<buf, twin, ahdr, demux, pkts, fed>>

ByteIdle ==
    /\ buf = <<>> /\ twin = <<>> /\ ahdr = <<>>
    /\ demux = <<>> /\ pkts = <<>> /\ fed = 0

\* vout, aout: the frames and samples returned since construction or the
\* last rewind; calls, acalls: calls of the video and the audio callback
\* during the last player call; rewound: a rewind has taken place.
NewLog ==
    [vout |-> <<>>, aout |-> <<>>, calls |-> 0, acalls |-> 0,
     rewound |-> FALSE]

PictureTypes == {pictureTypeIntra, pictureTypePredictive, pictureTypeB}

InitVideo ==
    \E n \in 1..MaxPictures : \E types \in [1..n -> PictureTypes] :
    \E noDelay \in BOOLEAN :
      LET pics == [i \in 1..n |-> [id |-> i, type |-> types[i]]]
          w0   == [video |-> NewVideoFields(NewUnitBuffer("reader", pics)),
                   audio |-> <<>>, mpeg |-> <<>>, log |-> NewLog]
          w1   == VideoHasHeader(w0)
      IN  /\ video = [w1.video EXCEPT !.assumeNoBFrames = noDelay]
          /\ audio = <<>>
          /\ mpeg = <<>>
          /\ log = NewLog
          /\ lastOp = <<"NewVideo">>
          /\ ByteIdle

VideoStepDecode ==
    /\ LET r == VideoDecode(World) IN
         /\ Becomes([r.w EXCEPT !.log.vout =
                       IF r.frame = -1 THEN @
                       ELSE Append(@, [id |-> r.frame, Time |-> r.Time])])
         /\ lastOp' = <<"Decode", r.frame>>
    /\ UNCHANGED byteVars

VideoStepRewind ==
    /\ video' = VideoRewind(video)
    /\ log' = [log EXCEPT !.vout = <<>>, !.rewound = TRUE]
    /\ lastOp' = <<"Rewind">>
    /\ UNCHANGED <<audio, mpeg, byteVars>>

NextVideo == VideoStepDecode \/ VideoStepRewind

SpecVideo == InitVideo /\ [][NextVideo]_vars

\* The pictures decoded since construction or the last rewind.
DecodedPictures ==
    SubSeq(video.buf.all, 1,
           Len(video.buf.all) - Len(video.buf.rd) - Len(video.buf.q))

Ids(frames) == [i \in 1..Len(frames) |-> frames[i].id]

\* Presentation order of pictures given in decode order: a B picture is
\* shown at once, an I or P picture when the next I or P picture arrives.
RECURSIVE Presented(_, _)
Presented(pics, held) ==
    IF pics = <<>> THEN <<>>
    ELSE IF Head(pics).type = pictureTypeB
    THEN <<Head(pics).id>> \o Presented(Tail(pics), held)
    ELSE (IF held # 0 THEN <<held>> ELSE <<>>)
           \o Presented(Tail(pics), Head(pics).id)

\* The last I or P picture of pics (0: none).
RECURSIVE Held(_)
Held(pics) ==
    IF pics = <<>> THEN 0
    ELSE IF Head(pics).type # pictureTypeB /\ Held(Tail(pics)) = 0
    THEN Head(pics).id
    ELSE Held(Tail(pics))

\* C1: with no-delay off, the frames Video.Decode has returned are the
\* decoded pictures in presentation order: every B picture, returned by the
\* call that decoded it, and every I or P picture that was followed by a
\* later I or P picture, returned by the call that decoded that one; the
\* first I or P picture returns nothing by itself; the last one is added
\* only by the flush at the end of the stream; no picture comes twice.
C1_PresentationOrder ==
    ~video.assumeNoBFrames =>
      Ids(log.vout) =
        Presented(DecodedPictures, 0)
          \o (IF ~video.hasReferenceFrame /\ Held(DecodedPictures) # 0
              THEN <<Held(DecodedPictures)>> ELSE <<>>)

\* C1 witness: I P B P decoded in this order were returned as 1, 3, 2.
C1_Reordered ==
    /\ ~video.assumeNoBFrames
    /\ Ids(log.vout) = <<1, 3, 2>>
    /\ Len(DecodedPictures) = 4
    /\ DecodedPictures[3].type = pictureTypeB

\* C2: at the end of the stream every decoded picture is returned: once
\* Decode returns nil on an ended buffer (no-delay off), no decoded I or P
\* picture is still held back, whatever the type of the last picture.
C2_HeldReferenceReturned ==
    (/\ ~video.assumeNoBFrames
     /\ lastOp = <<"Decode", -1>>
     /\ video.buf.hasEnded)
      => \A i \in 1..Len(DecodedPictures) :
           \E j \in 1..Len(log.vout) : log.vout[j].id = DecodedPictures[i].id

(***************************************************************************)
(* audio (unnamed part 1): Audio, on audio frames.  v is the content of    *)
(* the synthesis delay line a.v: the id of the frame whose subband samples *)
(* it holds (0: the zeros of NewAudio); one frame runs 36 steps of the     *)
(* filter bank, each reading the 16 last blocks written, so the samples of *)
(* a frame are a function of the frame and of v before it.                 *)
(***************************************************************************)
NewAudioFields(b) ==
    [ buf |-> b, time |-> 0, samplesDecoded |-> 0, nextFrameDataSize |-> 0,
      hasHeader |-> FALSE, v |-> 0, vPos |-> 0 ]

\* decodeHeader: 1 when the header of the next frame was read, else 0.
AudioDecodeHeaderUnits(w) ==
    Bind(hasUnits(w, "audio", 1), LAMBDA w1 :
    IF w1.audio.buf.q = <<>> THEN w1
    ELSE [w1 EXCEPT !.audio.nextFrameDataSize = 1, !.audio.hasHeader = TRUE])

NewAudio(w) == AudioDecodeHeaderUnits(w)

AudioSetTime(a, time) == [a EXCEPT !.samplesDecoded = time, !.time = time]

AudioRewind(a) ==
    [a EXCEPT !.buf = RewindUnits(@), !.time = 0, !.samplesDecoded = 0,
              !.nextFrameDataSize = 0]

\* decodeFrame: the samples are made from the frame and the delay line.
decodeFrame(a) ==
    [a EXCEPT !.buf.q = Tail(@),
              !.v = Head(a.buf.q).id,
              !.vPos = (a.vPos - 64 * 36) % 1024]

\* Audio.Decode: [w, ok, samples, Time]; ok is FALSE for a nil return.
AudioDecode(w) ==
    Bind(IF w.audio.nextFrameDataSize = 0 THEN AudioDecodeHeaderUnits(w)
         ELSE w, LAMBDA w1 :
    IF w1.audio.nextFrameDataSize = 0
    THEN [w |-> w1, ok |-> FALSE, samples |-> [id |-> 0, v |-> 0], Time |-> 0]
    ELSE [w |-> [w1 EXCEPT !.audio =
                   [decodeFrame(w1.audio) EXCEPT
                      !.nextFrameDataSize = 0,
                      !.samplesDecoded = @ + 1,
                      !.time = w1.audio.samplesDecoded + 1]],
          ok |-> TRUE,
          samples |-> [id |-> Head(w1.audio.buf.q).id, v |-> w1.audio.v],
          Time |-> w1.audio.time])

(***************************************************************************)
(* The audio specification: an Audio on a seekable reader holding a        *)
(* sequence of audio frames; Decode and Rewind.                            *)
(***************************************************************************)
MaxFrames == 3
FrameContents == {1, 2}

NewAudioWorld(frames) ==
    NewAudio([video |-> <<>>,
              audio |-> NewAudioFields(NewUnitBuffer("reader", frames)),
              mpeg |-> <<>>, log |-> NewLog])

InitAudio ==
    \E n \in 1..MaxFrames : \E ids \in [1..n -> FrameContents] :
      /\ audio = NewAudioWorld([i \in 1..n |-> [id |-> ids[i]]]).audio
      /\ video = <<>>
      /\ mpeg = <<>>
      /\ log = NewLog
      /\ lastOp = <<"NewAudio">>
      /\ ByteIdle

AudioStepDecode ==
    /\ LET r == AudioDecode(World) IN
         /\ Becomes([r.w EXCEPT !.log.aout =
                       IF ~r.ok THEN @
                       ELSE Append(@, [samples |-> r.samples,
                                       Time |-> r.Time])])
         /\ lastOp' = <<"Decode", r.ok>>
    /\ UNCHANGED byteVars

AudioStepRewind ==
    /\ audio' = AudioRewind(audio)
    /\ log' = [log EXCEPT !.aout = <<>>, !.rewound = TRUE]
    /\ lastOp' = <<"Rewind">>
    /\ UNCHANGED <<video, mpeg, byteVars>>

NextAudio == AudioStepDecode \/ AudioStepRewind

SpecAudio == InitAudio /\ [][NextAudio]_vars

\* The samples and times of the first n Decode calls of the world w.
RECURSIVE AudioOutputs(_, _)
AudioOutputs(w, n) ==
    IF n = 0 THEN <<>>
    ELSE Bind(AudioDecode(w), LAMBDA r :
         IF ~r.ok THEN <<>>
         ELSE <<[samples |-> r.samples, Time |-> r.Time]>>
                \o AudioOutputs(r.w, n - 1))

\* C7: after Rewind on a decoder whose buffer can be rewound, Time() is 0
\* and the outputs of the following Decode calls (samples and their times)
\* equal those of a freshly constructed decoder on the same source.
C7_RewindEqualsFresh ==
    log.rewound =>
      /\ lastOp = <<"Rewind">> => audio.time = 0
      /\ log.aout = AudioOutputs(NewAudioWorld(audio.buf.all), Len(log.aout))

(***************************************************************************)
(* The video time specification: the video specification with SetTime.    *)
(* A SetTime(t) leaves the mark [id |-> -1, Time |-> t] in log.vout, so    *)
(* that the frames returned after it can be told from those before it.     *)
(***************************************************************************)
MaxSetTime == 2
MaxSetTimes == 2

SetTimeMarks(vout) == { i \in 1..Len(vout) : vout[i].id = -1 }

VideoStepSetTime ==
    /\ Cardinality(SetTimeMarks(log.vout)) < MaxSetTimes
    /\ \E t \in 0..MaxSetTime :
         /\ video' = VideoSetTime(video, t)
         /\ log' = [log EXCEPT !.vout = Append(@, [id |-> -1, Time |-> t])]
         /\ lastOp' = <<"SetTime", t>>
    /\ UNCHANGED <<audio, mpeg, byteVars>>

NextVideoTime == VideoStepDecode \/ VideoStepRewind \/ VideoStepSetTime

SpecVideoTime == InitVideo /\ [][NextVideoTime]_vars

\* The frames of vout[i+1..j] were returned with no SetTime between them.
NoMarkIn(vout, i, j) == \A k \in (i + 1)..j : vout[k].id # -1

\* C11: after SetTime(t) the decoder's time is t, the next frame returned
\* has Time t and each following frame has the Time of the frame before it
\* plus one frame period.
C11_SetTimeConsistent ==
    \A i \in SetTimeMarks(log.vout) :
      /\ i = Len(log.vout) => video.time = log.vout[i].Time
      /\ \A j \in (i + 1)..Len(log.vout) :
           NoMarkIn(log.vout, i, j) =>
             log.vout[j].Time = log.vout[i].Time + (j - i - 1)

\* C12: of two frames returned one after the other with no Rewind or
\* SetTime between them, the later one's Time is not before the earlier
\* one's.
C12_TimeMonotonic ==
    \A i \in 1..(Len(log.vout) - 1) :
      (log.vout[i].id # -1 /\ log.vout[i + 1].id # -1) =>
        log.vout[i + 1].Time >= log.vout[i].Time

(***************************************************************************)
(* mpeg.go: MPEG, on packets [Type, Pts, unit].  demux is the demuxer on   *)
(* packets: src the packets of the source, pos how many were returned,     *)
(* hasEnded its buffer's flag.  done is the number of values in the Done   *)
(* channel (capacity 1); blocked: a call waits to send on the full         *)
(* channel.  Both callbacks are set.                                       *)
(***************************************************************************)
videoCallback(w) == [w EXCEPT !.log.calls = @ + 1]

audioCallback(w) == [w EXCEPT !.log.acalls = @ + 1]

MpegRewind(w) ==
    [w EXCEPT !.video = VideoRewind(@),
              !.audio = AudioRewind(@),
              !.mpeg.demux.pos = 0,
              !.mpeg.demux.hasEnded = FALSE,
              !.mpeg.time = 0]

handleEnd(w) ==
    IF w.mpeg.loop THEN MpegRewind(w)
    ELSE IF w.mpeg.done >= 1      \* m.done <- true on the full channel
    THEN [w EXCEPT !.mpeg.hasEnded = TRUE, !.mpeg.blocked = TRUE]
    ELSE [w EXCEPT !.mpeg.hasEnded = TRUE, !.mpeg.done = @ + 1]

MpegDecodeVideo(w) ==
    IF w.mpeg.videoPacketType = 0 THEN [w |-> w, frame |-> -1]
    ELSE Bind(VideoDecode(w), LAMBDA r :
         IF r.frame # -1
         THEN [w |-> [r.w EXCEPT !.mpeg.time = r.Time], frame |-> r.frame]
         ELSE IF r.w.mpeg.demux.hasEnded
         THEN [w |-> handleEnd(r.w), frame |-> -1]
         ELSE [w |-> r.w, frame |-> -1])

MpegDecodeAudio(w) ==
    IF w.mpeg.audioPacketType = 0 THEN [w |-> w, ok |-> FALSE]
    ELSE Bind(AudioDecode(w), LAMBDA r :
         IF r.ok
         THEN [w |-> [r.w EXCEPT !.mpeg.time = r.Time], ok |-> TRUE]
         ELSE IF r.w.mpeg.demux.hasEnded
         THEN [w |-> handleEnd(r.w), ok |-> FALSE]
         ELSE [w |-> r.w, ok |-> FALSE])

\* The video half of one round of the loop of MPEG.Decode.
DecodeVideoTo(w, videoTargetTime) ==
    IF w.mpeg.videoPacketType # 0 /\ w.video.time < videoTargetTime
    THEN Bind(VideoDecode(w), LAMBDA r :
         IF r.frame # -1
         THEN [w |-> videoCallback(r.w), did |-> TRUE, failed |-> FALSE]
         ELSE [w |-> r.w, did |-> FALSE, failed |-> TRUE])
    ELSE [w |-> w, did |-> FALSE, failed |-> FALSE]

\* The audio half of one round of the loop of MPEG.Decode.
DecodeAudioTo(w, audioTargetTime) ==
    IF w.mpeg.audioPacketType # 0 /\ w.audio.time < audioTargetTime
    THEN Bind(AudioDecode(w), LAMBDA r :
         IF r.ok
         THEN [w |-> audioCallback(r.w), did |-> TRUE, failed |-> FALSE]
         ELSE [w |-> r.w, did |-> FALSE, failed |-> TRUE])
    ELSE [w |-> w, did |-> FALSE, failed |-> FALSE]

RECURSIVE MpegDecodeLoop(_, _, _, _)
MpegDecodeLoop(w, targetTime, decodeVideoFailed, decodeAudioFailed) ==
    Bind(DecodeVideoTo(w, targetTime), LAMBDA rv :
    Bind(DecodeAudioTo(rv.w, targetTime + rv.w.mpeg.audioLeadTime),
         LAMBDA ra :
    IF rv.did \/ ra.did
    THEN MpegDecodeLoop(ra.w, targetTime, decodeVideoFailed \/ rv.failed,
                        decodeAudioFailed \/ ra.failed)
    ELSE [w |-> ra.w, decodeVideoFailed |-> decodeVideoFailed \/ rv.failed,
          decodeAudioFailed |-> decodeAudioFailed \/ ra.failed]))

\* MPEG.Decode that leaves the player's time as it was.
MpegDecodeNoAdvance(w, tick) ==
    IF w.mpeg.videoPacketType = 0 /\ w.mpeg.audioPacketType = 0 THEN w
    ELSE MpegDecodeLoop(w, w.mpeg.time + tick, FALSE, FALSE).w

MpegDecode(w, tick) ==
    IF w.mpeg.videoPacketType = 0 /\ w.mpeg.audioPacketType = 0 THEN w
    ELSE
    Bind(MpegDecodeLoop(w, w.mpeg.time + tick, FALSE, FALSE), LAMBDA r :
    IF /\ (w.mpeg.videoPacketType = 0 \/ r.decodeVideoFailed)
       /\ (w.mpeg.audioPacketType = 0 \/ r.decodeAudioFailed)
       /\ r.w.mpeg.demux.hasEnded
    THEN handleEnd(r.w)
    ELSE [r.w EXCEPT !.mpeg.time = @ + tick])

\* Demux.StartTime, Demux.Duration and Demux.Seek on the packets of a
\* demuxer that was asked about one packet type only: the PTS of the first
\* packet of the type that carries one, the span from it to the PTS of the
\* last such packet, and the index of the last packet of the type with an
\* intra picture and a PTS not after the clamped seek time (0: none).
PtsOf(src, typ) ==
    { i \in 1..Len(src) : src[i].Type = typ /\ src[i].Pts # PacketInvalidTS }

SetMin(S) == CHOOSE x \in S : \A y \in S : x <= y

SetMax(S) == CHOOSE x \in S : \A y \in S : x >= y

DemuxStartTime(src, typ) ==
    IF PtsOf(src, typ) = {} THEN PacketInvalidTS
    ELSE src[SetMin(PtsOf(src, typ))].Pts

DemuxDuration(src, typ) ==
    IF PtsOf(src, typ) = {} THEN PacketInvalidTS
    ELSE src[SetMax(PtsOf(src, typ))].Pts - DemuxStartTime(src, typ)

DemuxSeek(src, seekTime, typ) ==
    Bind({ i \in 1..Len(src) :
             /\ src[i].Type = typ
             /\ src[i].unit.type = pictureTypeIntra
             /\ src[i].Pts <= seekTime + DemuxStartTime(src, typ) },
         LAMBDA S : IF S = {} THEN 0 ELSE SetMax(S))

ClampTime(tm, duration) ==
    IF tm < 0 THEN 0 ELSE IF tm > duration THEN duration ELSE tm

\* for frame != nil && frame.Time < tm { frame = m.videoDecoder.Decode() }
RECURSIVE SeekExactLoop(_, _)
SeekExactLoop(r, tm) ==
    IF r.frame # -1 /\ r.Time < tm THEN SeekExactLoop(VideoDecode(r.w), tm)
    ELSE r

\* SeekFrame once Demux.Seek has returned the pk of index i.
SeekFrameAt(w, i, tm, seekExact) ==
    Bind(w.mpeg.demux.src[i], LAMBDA pk :
    Bind(VideoDecode(
           [w EXCEPT !.mpeg.demux.pos = i,
                     !.mpeg.demux.hasEnded = FALSE,
                     !.mpeg.audioPacketType = 0,
                     !.video =
                        [VideoSetTime(VideoRewind(w.video),
                                      pk.Pts - DemuxStartTime(
                                         w.mpeg.demux.src,
                                         w.mpeg.videoPacketType))
                           EXCEPT !.buf = WriteUnit(@, pk.unit)]]),
         LAMBDA r0 :
    Bind(IF seekExact THEN SeekExactLoop(r0, tm) ELSE r0, LAMBDA r :
    [w |-> [r.w EXCEPT !.mpeg.audioPacketType = w.mpeg.audioPacketType,
                       !.mpeg.time = IF r.frame # -1 THEN r.Time ELSE @,
                       !.mpeg.hasEnded = FALSE],
     frame |-> r.frame])))

SeekFrame(w, tm, seekExact) ==
    IF w.mpeg.videoPacketType = 0 THEN [w |-> w, frame |-> -1]
    ELSE
    Bind(ClampTime(tm, DemuxDuration(w.mpeg.demux.src,
                                     w.mpeg.videoPacketType)), LAMBDA t :
    Bind(DemuxSeek(w.mpeg.demux.src, t, w.mpeg.videoPacketType), LAMBDA i :
    IF i = 0 THEN [w |-> w, frame |-> -1]
    ELSE SeekFrameAt(w, i, t, seekExact)))

\* The audio synchronisation loop of MPEG.Seek.
RECURSIVE SeekAudioSync(_, _)
SeekAudioSync(w, startTime) ==
    IF w.mpeg.demux.pos >= Len(w.mpeg.demux.src)
    THEN [w EXCEPT !.mpeg.demux.hasEnded = TRUE]
    ELSE
    Bind(w.mpeg.demux.src[w.mpeg.demux.pos + 1], LAMBDA pk :
    Bind([w EXCEPT !.mpeg.demux.pos = @ + 1], LAMBDA w1 :
    IF pk.Type = w.mpeg.videoPacketType
    THEN SeekAudioSync([w1 EXCEPT !.video.buf = WriteUnit(@, pk.unit)],
                       startTime)
    ELSE IF /\ pk.Type = w.mpeg.audioPacketType
            /\ pk.Pts - startTime > w.mpeg.time
    THEN Bind(MpegDecode(
                [w1 EXCEPT !.audio =
                             [AudioSetTime(w1.audio, pk.Pts - startTime)
                                EXCEPT !.buf = WriteUnit(@, pk.unit)],
                           !.mpeg.audioPacketType = 0], 0), LAMBDA w2 :
         IF w2.mpeg.blocked THEN w2
         ELSE MpegDecode([w2 EXCEPT !.mpeg.audioPacketType =
                                       w.mpeg.audioPacketType], 0))
    ELSE SeekAudioSync(w1, startTime)))

MpegSeek(w, tm, seekExact) ==
    Bind(SeekFrame(w, tm, seekExact), LAMBDA r :
    IF r.frame = -1 THEN [w |-> r.w, ok |-> FALSE]
    ELSE
    Bind(videoCallback(r.w), LAMBDA w1 :
    IF w1.mpeg.audioPacketType = 0 THEN [w |-> w1, ok |-> TRUE]
    ELSE [w |-> SeekAudioSync([w1 EXCEPT !.audio = AudioRewind(@)],
                              DemuxStartTime(w1.mpeg.demux.src,
                                             w1.mpeg.videoPacketType)),
          ok |-> TRUE]))

\* New and initDecoders on a source with a video and an audio stream.
MpegNew(src) ==
    Bind(VideoHasHeader(
           [video |-> NewVideoFields(NewUnitBuffer("video", <<>>)),
            audio |-> NewAudioFields(NewUnitBuffer("none", <<>>)),
            mpeg  |-> [demux |-> [src |-> src, pos |-> 0, hasEnded |-> FALSE],
                       time |-> 0, loop |-> FALSE, hasEnded |-> FALSE,
                       videoPacketType |-> PacketVideo1,
                       audioPacketType |-> 0, audioLeadTime |-> 0,
                       done |-> 0, blocked |-> FALSE],
            log   |-> NewLog]), LAMBDA w1 :
    NewAudio([w1 EXCEPT !.mpeg.audioPacketType = PacketAudio1,
                        !.audio = NewAudioFields(NewUnitBuffer("audio", <<>>))]))

(***************************************************************************)
(* The player specification: an MPEG on a source whose packets alternate   *)
(* between the video and the audio stream: picture k of PlayerPictures is  *)
(* followed by an audio frame with the presentation time k - 1, and all    *)
(* audio frames are alike.  The exported calls are the actions; a call     *)
(* that waits to send on Done leaves the player blocked until the value    *)
(* in the channel is received.                                             *)
(***************************************************************************)
MaxSeekTime == 2
Ticks == {0, 1}

\* The pictures of a source in decode order, with their presentation times.
PlayerPictures ==
    { << [type |-> pictureTypeIntra, Pts |-> 0],
         [type |-> pictureTypeIntra, Pts |-> 1] >>,
      << [type |-> pictureTypeIntra, Pts |-> 0],
         [type |-> pictureTypePredictive, Pts |-> 2],
         [type |-> pictureTypeB, Pts |-> 1] >>,
      << [type |-> pictureTypeIntra, Pts |-> 0],
         [type |-> pictureTypeIntra, Pts |-> 1],
         [type |-> pictureTypeIntra, Pts |-> 2],
         [type |-> pictureTypeIntra, Pts |-> 3],
         [type |-> pictureTypeIntra, Pts |-> 4] >> }

PlayerSource(pics) ==
    [i \in 1..(2 * Len(pics)) |->
       IF i % 2 = 1
       THEN [Type |-> PacketVideo1, Pts |-> pics[(i + 1) \div 2].Pts,
             unit |-> [id |-> (i + 1) \div 2,
                       type |-> pics[(i + 1) \div 2].type]]
       ELSE [Type |-> PacketAudio1, Pts |-> (i \div 2) - 1,
             unit |-> [id |-> 1]]]

InitPlayer ==
    /\ \E pics \in PlayerPictures : Starts(MpegNew(PlayerSource(pics)))
    /\ lastOp = <<"New">>
    /\ ByteIdle

PlayerLive == ~mpeg.blocked

\* The world at the start of a call: the callbacks have not been called.
Called ==
    [World EXCEPT !.log.calls = 0, !.log.acalls = 0, !.log.rewound = FALSE]

PlayerSetLoop ==
    /\ PlayerLive
    /\ \E loop \in BOOLEAN :
         Becomes([Called EXCEPT !.mpeg.loop = loop])
    /\ lastOp' = <<"SetLoop">>
    /\ UNCHANGED byteVars

PlayerDecode ==
    /\ PlayerLive
    /\ \E tick \in Ticks : Becomes(MpegDecode(Called, tick))
    /\ lastOp' = <<"Decode">>
    /\ UNCHANGED byteVars

PlayerDecodeVideo ==
    /\ PlayerLive
    /\ LET r == MpegDecodeVideo(Called) IN
         /\ Becomes(r.w)
         /\ lastOp' = <<"DecodeVideo", r.frame, log.rewound>>
    /\ UNCHANGED byteVars

PlayerDecodeAudio ==
    /\ PlayerLive
    /\ LET r == MpegDecodeAudio(Called) IN
         /\ Becomes(r.w)
         /\ lastOp' = <<"DecodeAudio", r.ok>>
    /\ UNCHANGED byteVars

PlayerSeek ==
    /\ PlayerLive
    /\ \E tm \in 0..MaxSeekTime : \E seekExact \in BOOLEAN :
         LET r == MpegSeek(Called, tm, seekExact) IN
           /\ Becomes(r.w)
           /\ lastOp' = <<"Seek", r.ok>>
    /\ UNCHANGED byteVars

PlayerRewind ==
    /\ PlayerLive
    /\ Becomes([MpegRewind(Called) EXCEPT !.log.rewound = TRUE])
    /\ lastOp' = <<"Rewind">>
    /\ UNCHANGED byteVars

\* A receive from Done(): it takes the value in the channel, and the value
\* of a waiting sender takes its place.
PlayerDoneReceive ==
    /\ mpeg.done >= 1
    /\ mpeg' = [mpeg EXCEPT !.done = IF mpeg.blocked THEN 1 ELSE 0,
                            !.blocked = FALSE]
    /\ lastOp' = <<"<-Done">>
    /\ UNCHANGED <<video, audio, log, byteVars>>

NextPlayer ==
    \/ PlayerSetLoop
    \/ PlayerDecode
    \/ PlayerDecodeVideo
    \/ PlayerDecodeAudio
    \/ PlayerSeek
    \/ PlayerRewind
    \/ PlayerDoneReceive

SpecPlayer == InitPlayer /\ [][NextPlayer]_vars

\* C3: after MPEG.Rewind, HasEnded() is false (also when the stream had
\* ended with looping off), and a DecodeVideo that follows the Rewind
\* returns the first frame.
C3_RewindClearsEnded ==
    /\ lastOp = <<"Rewind">> => ~mpeg.hasEnded
    /\ (lastOp[1] = "DecodeVideo" /\ lastOp[3]) => lastOp[2] = 1

\* C4: Loop() and HasEnded() are never both true: with looping on, the end
\* of the stream rewinds instead of ending playback.
C4_LoopNeverEnded == ~(mpeg.loop /\ mpeg.hasEnded)

\* C5: no call of the player waits forever at the end of the stream: the
\* send on Done never blocks, whether or not anything receives from it.
C5_DoneNeverBlocks == ~mpeg.blocked

\* C10: a successful Seek calls the video callback exactly once.
C10_SeekCallsVideoOnce == lastOp = <<"Seek", TRUE>> => log.calls = 1

(***************************************************************************)
(* The routing specification: an MPEG with both streams enabled on a       *)
(* source of packets of the video stream, of the selected audio stream and *)
(* of a second audio stream, in any order; DecodeVideo and DecodeAudio in  *)
(* any interleaving.  All pictures are intra pictures; the units of a      *)
(* stream are numbered in stream order.  log.vout and log.aout hold what   *)
(* the two decoders returned.                                              *)
(***************************************************************************)
MaxRoutingPackets == 4

RoutingTypes == {PacketVideo1, PacketAudio1, PacketAudio2}

\* The number of packets of type typ among the first n packets.
CountType(types, n, typ) ==
    Cardinality({ j \in 1..n : types[j] = typ })

RoutingSource(types) ==
    [i \in 1..Len(types) |->
       [Type |-> types[i], Pts |-> i - 1,
        unit |-> IF types[i] = PacketVideo1
                 THEN [id |-> CountType(types, i, types[i]),
                       type |-> pictureTypeIntra]
                 ELSE [id |-> CountType(types, i, types[i])]]]

RoutingSources ==
    { RoutingSource(types) :
        types \in { t \in UNION { [1..n -> RoutingTypes] :
                                    n \in 2..MaxRoutingPackets } :
                      /\ \E i \in DOMAIN t : t[i] = PacketVideo1
                      /\ \E i \in DOMAIN t : t[i] = PacketAudio1 } }

InitRouting ==
    /\ \E src \in RoutingSources : Starts(MpegNew(src))
    /\ lastOp = <<"New">>
    /\ ByteIdle

RoutingDecodeVideo ==
    /\ PlayerLive
    /\ LET r == MpegDecodeVideo(World) IN
         /\ Becomes([r.w EXCEPT !.log.vout =
                       IF r.frame = -1 THEN @
                       ELSE Append(@, [id |-> r.frame, Time |-> 0])])
         /\ lastOp' = <<"DecodeVideo", mpeg.demux.pos>>
    /\ UNCHANGED byteVars

RoutingDecodeAudio ==
    /\ PlayerLive
    /\ LET r == AudioDecode(World)
           w == IF r.ok THEN [r.w EXCEPT !.mpeg.time = r.Time]
                ELSE IF r.w.mpeg.demux.hasEnded THEN handleEnd(r.w)
                ELSE r.w
       IN
         /\ Becomes([w EXCEPT !.log.aout =
                       IF ~r.ok THEN @
                       ELSE Append(@, [samples |-> r.samples, Time |-> 0])])
         /\ lastOp' = <<"DecodeAudio", mpeg.demux.pos>>
    /\ UNCHANGED byteVars

NextRouting == RoutingDecodeVideo \/ RoutingDecodeAudio \/ PlayerDoneReceive

SpecRouting == InitRouting /\ [][NextRouting]_vars

\* The units of the packets of type typ that the demuxer has returned.
Yielded(typ) ==
    Bind(SelectSeq(SubSeq(mpeg.demux.src, 1, mpeg.demux.pos),
                   LAMBDA p : p.Type = typ), LAMBDA ps :
    [i \in 1..Len(ps) |-> ps[i].unit.id])

\* The pictures the video decoder has taken from its buffer: those of the
\* frames returned and the reference picture it holds.
VideoTaken ==
    Ids(log.vout) \o
      (IF video.hasReferenceFrame THEN <<video.frameBackward>> ELSE <<>>)

AudioTaken == [i \in 1..Len(log.aout) |-> log.aout[i].samples.id]

\* C13: every packet the demuxer has returned of the selected video type
\* is in the video buffer, and every one of the selected audio type in the
\* audio buffer, once and in stream order: what each decoder has taken
\* from its buffer followed by what its buffer holds is the sequence of
\* the units of its type returned so far.  A call stops loading at the
\* first packet of its own type.
C13_PacketsRouted ==
    /\ VideoTaken \o Ids(video.buf.q) = Yielded(mpeg.videoPacketType)
    /\ AudioTaken \o Ids(audio.buf.q) = Yielded(mpeg.audioPacketType)
    /\ (lastOp[1] = "DecodeVideo" /\ mpeg.demux.pos > lastOp[2]) =>
         \/ mpeg.demux.src[mpeg.demux.pos].Type = mpeg.videoPacketType
         \/ mpeg.demux.hasEnded
    /\ (lastOp[1] = "DecodeAudio" /\ mpeg.demux.pos > lastOp[2]) =>
         \/ mpeg.demux.src[mpeg.demux.pos].Type = mpeg.audioPacketType
         \/ mpeg.demux.hasEnded

(***************************************************************************)
(* The decode specification: MPEG.Decode(tick) with looping and an audio   *)
(* lead time.  lastOp of a Decode holds the tick, the player's time, the   *)
(* two decoders' frame counters and the lead time before the call, and     *)
(* whether the call handled the end of the stream.                         *)
(***************************************************************************)
MaxTick == 2
MaxLeadTime == 1

\* The condition under which MPEG.Decode calls handleEnd.
HandlesEnd(w, tick) ==
    /\ w.mpeg.videoPacketType # 0 \/ w.mpeg.audioPacketType # 0
    /\ Bind(MpegDecodeLoop(w, w.mpeg.time + tick, FALSE, FALSE), LAMBDA r :
         /\ (w.mpeg.videoPacketType = 0 \/ r.decodeVideoFailed)
         /\ (w.mpeg.audioPacketType = 0 \/ r.decodeAudioFailed)
         /\ r.w.mpeg.demux.hasEnded)

DecodeTick ==
    /\ PlayerLive
    /\ \E tick \in 0..MaxTick :
         /\ Becomes(MpegDecode(Called, tick))
         /\ lastOp' = <<"Decode", tick, mpeg.time, video.framesDecoded,
                        audio.samplesDecoded, mpeg.audioLeadTime,
                        HandlesEnd(Called, tick)>>
    /\ UNCHANGED byteVars

DecodeSetAudioLeadTime ==
    /\ PlayerLive
    /\ \E leadTime \in 0..MaxLeadTime :
         mpeg' = [mpeg EXCEPT !.audioLeadTime = leadTime]
    /\ lastOp' = <<"SetAudioLeadTime">>
    /\ UNCHANGED <<video, audio, log, byteVars>>

NextDecode ==
    \/ DecodeTick
    \/ DecodeSetAudioLeadTime
    \/ PlayerSetLoop
    \/ PlayerRewind
    \/ PlayerDoneReceive

SpecDecode == InitPlayer /\ [][NextDecode]_vars

InitDiscard ==
    /\ buf = NewBuffer(FALSE, FALSE, <<>>)
    /\ twin = [NewBuffer(FALSE, FALSE, <<>>) EXCEPT !.discardRead = FALSE]
    /\ lastOp = <<"NewBuffer", 0, 0>>
    /\ ahdr = <<>>
    /\ demux = <<>>
    /\ pkts = <<>>
    /\ fed = 0
    /\ PlayIdle

DiscardLive == ~buf.panic /\ ~twin.panic

DiscardWrite ==
    /\ DiscardLive
    /\ \E p \in WriteData :
         /\ fed + Len(p) <= MaxBytes
         /\ buf' = Write(buf, p)
         /\ twin' = Write(twin, p)
         /\ fed' = fed + Len(p)
         /\ lastOp' = <<"Write", Len(p), Len(p)>>
    /\ UNCHANGED <<ahdr, demux, pkts, playVars>>

DiscardRead ==
    /\ DiscardLive
    /\ \E n \in BitCounts :
         /\ buf' = read(buf, n).b
         /\ twin' = read(twin, n).b
         /\ lastOp' = <<"read", read(buf, n).v, read(twin, n).v>>
    /\ UNCHANGED <<ahdr, demux, pkts, fed, playVars>>

DiscardRead1 ==
    /\ DiscardLive
    /\ buf' = read1(buf).b
    /\ twin' = read1(twin).b
    /\ lastOp' = <<"read1", read1(buf).v, read1(twin).v>>
    /\ UNCHANGED <<ahdr, demux, pkts, fed, playVars>>

DiscardSkip ==
    /\ DiscardLive
    /\ \E n \in BitCounts :
         /\ buf' = skip(buf, n)
         /\ twin' = skip(twin, n)
    /\ lastOp' = <<"skip", 0, 0>>
    /\ UNCHANGED <<ahdr, demux, pkts, fed, playVars>>

DiscardAlign ==
    /\ DiscardLive
    /\ buf' = align(buf)
    /\ twin' = align(twin)
    /\ lastOp' = <<"align", 0, 0>>
    /\ UNCHANGED <<ahdr, demux, pkts, fed, playVars>>

DiscardNextStartCode ==
    /\ DiscardLive
    /\ buf' = nextStartCode(buf).b
    /\ twin' = nextStartCode(twin).b
    /\ lastOp' = <<"nextStartCode", nextStartCode(buf).v,
                   nextStartCode(twin).v>>
    /\ UNCHANGED <<ahdr, demux, pkts, fed, playVars>>

NextDiscard ==
    \/ DiscardWrite
    \/ DiscardRead
    \/ DiscardRead1
    \/ DiscardSkip
    \/ DiscardAlign
    \/ DiscardNextStartCode

SpecDiscard == InitDiscard /\ [][NextDiscard]_vars

\* The bytes of b from the byte of the cursor on.
Unread(b) == Slice(b.bytes, Min(Index(b), Len(b.bytes)), Len(b.bytes))

\* C15: under the same calls, every call returns the same value with
\* discardRead on as with discardRead off, and the two buffers hold the
\* same unread bytes with the cursor at the same bit of its byte.
C15_DiscardTransparent ==
    /\ lastOp[2] = lastOp[3]
    /\ ~buf.panic
    /\ Unread(buf) = Unread(twin)
    /\ buf.bitIndex % 8 = twin.bitIndex % 8

\* A read on a compacted buffer whose cursor is inside a byte.
C15_ReadAfterCompaction ==
    /\ lastOp[1] = "read"
    /\ lastOp[2] > 0
    /\ Len(buf.bytes) < Len(twin.bytes)
    /\ buf.bitIndex < twin.bitIndex
    /\ buf.bitIndex % 8 # 0

(***************************************************************************)
(* The end specification: a Buffer that is written to or that loads from   *)
(* a reader; Write, SignalEnd, read and read1.  lastOp of a read holds the *)
(* number of bits asked for, the value returned, whether has found the     *)
(* bits, and the cursor before the call.                                   *)
(***************************************************************************)
\* The cursor as a bit offset into the whole stream: the bytes the reader
\* has delivered that are no longer in bytes count too.
AbsCursor(b) ==
    IF b.reader THEN Shl3(b.rpos - Len(b.bytes)) + b.bitIndex
    ELSE b.bitIndex

\* Reader contents: the last load brings three bytes, two bytes, one byte.
EndContents == ReaderContents \cup { <<0, 0, 1, 224, 7>> }

InitEnd ==
    /\ \/ buf = NewBuffer(FALSE, FALSE, <<>>)
       \/ \E c \in EndContents :
            buf = SetLoadCallback(NewBuffer(TRUE, TRUE, c), "reader")
    /\ lastOp = <<"NewBuffer">>
    /\ ahdr = NewAudioHeader
    /\ fed = 0
    /\ BufIdle
    /\ PlayIdle

EndRead ==
    /\ Live
    /\ \E n \in BitCounts :
         /\ buf' = read(buf, n).b
         /\ lastOp' = <<"read", n, read(buf, n).v, has(buf, n).ok,
                        AbsCursor(buf)>>
    /\ UNCHANGED <<ahdr, demux, pkts, fed, twin, playVars>>

EndRead1 ==
    /\ Live
    /\ buf' = read1(buf).b
    /\ lastOp' = <<"read1", 1, read1(buf).v, has(buf, 1).ok, AbsCursor(buf)>>
    /\ UNCHANGED <<ahdr, demux, pkts, fed, twin, playVars>>

NextEnd == BufWrite \/ BufSignalEnd \/ EndRead \/ EndRead1

SpecEnd == InitEnd /\ [][NextEnd]_vars

\* C16: a read or read1 that does not find the bits it asks for, also
\* after the load callback, returns 0, leaves the cursor where it was and
\* sets hasEnded, whether or not the total size is known.
C16_FailedReadEnds ==
    ((lastOp[1] = "read" \/ lastOp[1] = "read1") /\ ~lastOp[4]) =>
      /\ lastOp[3] = 0
      /\ AbsCursor(buf) = lastOp[5]
      /\ buf.hasEnded

(***************************************************************************)
(* The seekable specification: a Buffer without reader, on a reader that   *)
(* is no io.Seeker, or on one that is; Write, SignalEnd, read1 and Rewind. *)
(***************************************************************************)
InitSeekable ==
    /\ \/ buf = NewBuffer(FALSE, FALSE, <<>>)
       \/ \E c \in ReaderContents : \E isSeeker \in BOOLEAN :
            buf = SetLoadCallback(NewBuffer(TRUE, isSeeker, c), "reader")
    /\ lastOp = <<"NewBuffer">>
    /\ ahdr = NewAudioHeader
    /\ fed = 0
    /\ BufIdle
    /\ PlayIdle

SeekableWrite ==
    /\ Live
    /\ \E p \in WriteData :
         /\ fed + Len(p) <= MaxBytes
         /\ buf' = Write(buf, p)
         /\ fed' = fed + Len(p)
         /\ lastOp' = <<"Write">>
    /\ UNCHANGED <<ahdr, demux, pkts, twin, playVars>>

SeekableSignalEnd ==
    /\ Live
    /\ buf' = SignalEnd(buf)
    /\ lastOp' = <<"SignalEnd">>
    /\ UNCHANGED <<ahdr, demux, pkts, fed, twin, playVars>>

NextSeekable ==
    SeekableWrite \/ SeekableSignalEnd \/ BufRead1 \/ BufRewind

SpecSeekable == InitSeekable /\ [][NextSeekable]_vars

\* C17: Seekable() is true exactly when the reader is an io.Seeker and the
\* total size is known, and a Rewind on a buffer does not fail.
C17_SeekableIffSeeker ==
    /\ Seekable(buf) <=> (buf.seeker /\ buf.totalSize > 0)
    /\ lastOp = <<"Rewind">> => ~buf.panic

(***************************************************************************)
(* The packet specification: decodePacket on the bytes of one PES packet   *)
(* that follow its start code.  The packet has a declared length, 0xFF     *)
(* stuffing bytes, an optional P-STD field, a PTS/DTS flag, a clock and a  *)
(* payload; pkts holds the packet the bytes were built from.  Pts is       *)
(* counted in ticks of the 90000 Hz clock.                                 *)
(***************************************************************************)
MaxStuffing == 2
MaxExtraPayload == 1

\* Clocks with bits in each of the three fields of the time stamp.
Clocks == {0, 3, 90000, (2 ^ 30) + (2 ^ 15) + 1}

\* A time stamp of five bytes: four flag bits, clock[32..30], a marker
\* bit, clock[29..15], a marker bit, clock[14..0], a marker bit.
TimeBytes(flags, clock) ==
    << flags * 16 + ((clock \div (2 ^ 30)) % 8) * 2 + 1,
       (clock \div (2 ^ 22)) % 256,
       ((clock \div (2 ^ 15)) % 128) * 2 + 1,
       (clock \div (2 ^ 7)) % 256,
       (clock % 128) * 2 + 1 >>

FlagBytes(marker, clock) ==
    CASE marker = 0 -> <<15>>
      [] marker = 2 -> TimeBytes(2, clock)
      [] marker = 3 -> TimeBytes(3, clock) \o TimeBytes(1, clock)
      [] OTHER      -> <<31>>

PacketPayload(n) == [i \in 1..n |-> i]

\* The bytes of the packet after the start code.
PacketBytes(p) ==
    <<p.length \div 256, p.length % 256>>
      \o [i \in 1..p.stuffing |-> 255]
      \o (IF p.pstd THEN <<96, 32>> ELSE <<>>)
      \o FlagBytes(p.marker, p.clock)
      \o PacketPayload(p.payload)

PacketInputs ==
    { [id |-> PacketVideo1, stuffing |-> s, pstd |-> pstd, marker |-> f,
       clock |-> c, payload |-> n,
       length |-> s + (IF pstd THEN 2 ELSE 0) + Len(FlagBytes(f, c)) + n] :
        s \in 0..MaxStuffing, pstd \in BOOLEAN, f \in 0..3, c \in Clocks,
        n \in PayloadLen..(PayloadLen + MaxExtraPayload) }

InitPacket ==
    \E p \in PacketInputs :
      /\ pkts = [packets |-> <<p>>, stream |-> PacketBytes(p),
                 returned |-> <<>>]
      /\ buf = Write(NewBuffer(FALSE, FALSE, <<>>), PacketBytes(p))
      /\ fed = Len(PacketBytes(p))
      /\ demux = [NewDemuxFields EXCEPT !.startCode = p.id]
      /\ lastOp = <<"Write">>
      /\ ahdr = NewAudioHeader
      /\ twin = <<>>
      /\ PlayIdle

PacketDecodePacket ==
    /\ lastOp = <<"Write">>
    /\ LET r == decodePacket(demux, buf, demux.startCode) IN
         /\ demux' = r.d
         /\ buf' = r.b
         /\ lastOp' = <<"decodePacket", r.ret>>
    /\ UNCHANGED <<ahdr, pkts, fed, twin, playVars>>

NextPacket == PacketDecodePacket

SpecPacket == InitPacket /\ [][NextPacket]_vars

\* The payload length the claim gives for the packet p.
ClaimedLength(p) ==
    p.length - p.stuffing - (IF p.pstd THEN 2 ELSE 0)
      - (CASE p.marker = 3 -> 10 [] p.marker = 2 -> 5 [] OTHER -> 1)

\* C18: for a packet with declared length L, s stuffing bytes, an optional
\* P-STD field and flag f, decodePacket returns nil for f = 1 and otherwise
\* a packet whose payload has L - s - (2 if P-STD) - (10, 5, 1 for f = 3,
\* 2, 0) bytes, the bytes after the header, with the clock of the time
\* stamp as Pts for f = 3 and f = 2 and PacketInvalidTS for f = 0.
C18_PacketFields ==
    lastOp[1] = "decodePacket" =>
      Bind(pkts.packets[1], LAMBDA p :
        IF p.marker = 1 THEN lastOp[2] = "nil"
        ELSE /\ lastOp[2] = "packet"
             /\ demux.currentPacket.length = ClaimedLength(p)
             /\ demux.currentPacket.Data = PacketPayload(p.payload)
             /\ demux.currentPacket.Type = p.id
             /\ demux.currentPacket.Pts =
                  IF p.marker = 0 THEN PacketInvalidTS ELSE p.clock)

\* A packet with stuffing, a P-STD field, PTS and DTS and a clock that has
\* a high bit was decoded.
C18_FullHeaderDecoded ==
    /\ lastOp = <<"decodePacket", "packet">>
    /\ pkts.packets[1].stuffing = MaxStuffing
    /\ pkts.packets[1].pstd
    /\ pkts.packets[1].marker = 3
    /\ demux.currentPacket.Pts > 2 ^ 30

(***************************************************************************)
(* demux.go: StartTime, Duration and Seek with the demuxer's cached        *)
(* startTime and duration, on the packets [Type, Pts, unit] of a file.     *)
(* d = [src, pos, hasEnded, startTime, duration]; a position is a number   *)
(* of packets before the cursor; times are counted in seconds.  The byte   *)
(* offset that Seek estimates for a jump from the byte rate is not         *)
(* computed: Seek takes the positions of its jumps as an argument, and     *)
(* every sequence of positions is considered.                              *)
(***************************************************************************)
NewPacketDemux(src) ==
    [src |-> src, pos |-> 0, hasEnded |-> FALSE,
     startTime |-> PacketInvalidTS, duration |-> PacketInvalidTS]

\* The loop of StartTime from the packet i on.
RECURSIVE StartTimeScan(_, _, _)
StartTimeScan(src, i, typ) ==
    IF i > Len(src) THEN PacketInvalidTS
    ELSE IF src[i].Type = typ /\ src[i].Pts # PacketInvalidTS
    THEN src[i].Pts
    ELSE StartTimeScan(src, i + 1, typ)

\* StartTime: the value returned is the startTime of the result.
StartTime(d, typ) ==
    IF d.startTime # PacketInvalidTS THEN d
    ELSE [d EXCEPT !.startTime = StartTimeScan(d.src, 1, typ),
                   !.hasEnded = FALSE]

\* The inner loop of Duration from the packet i on.
RECURSIVE LastPtsScan(_, _, _, _)
LastPtsScan(src, i, typ, lastPts) ==
    IF i > Len(src) THEN lastPts
    ELSE LastPtsScan(src, i + 1, typ,
                     IF src[i].Pts # PacketInvalidTS /\ src[i].Type = typ
                     THEN src[i].Pts ELSE lastPts)

\* Duration: the value returned is the duration of the result.
Duration(d, typ) ==
    IF d.duration # PacketInvalidTS THEN d
    ELSE
    Bind(LastPtsScan(d.src, 1, typ, PacketInvalidTS), LAMBDA lastPts :
    IF lastPts = PacketInvalidTS THEN [d EXCEPT !.hasEnded = FALSE]
    ELSE Bind(StartTime(d, typ), LAMBDA d1 :
         [d1 EXCEPT !.duration = lastPts - d1.startTime,
                    !.hasEnded = FALSE]))

\* The payload holds a picture start code with picture type intra.
IsIntraPacket(pk) ==
    pk.Type = PacketVideo1 /\ pk.unit.type = pictureTypeIntra

\* The scan of Seek over the packets of type typ from the packet i on.
RECURSIVE SeekScan(_, _, _, _, _, _, _)
SeekScan(src, i, typ, forceIntra, seekTime, scanSpan, acc) ==
    IF i > Len(src) THEN [acc EXCEPT !.pos = Len(src), !.hasEnded = TRUE]
    ELSE IF src[i].Type # typ \/ src[i].Pts = PacketInvalidTS
    THEN SeekScan(src, i + 1, typ, forceIntra, seekTime, scanSpan, acc)
    ELSE IF src[i].Pts > seekTime \/ src[i].Pts < seekTime - scanSpan
    THEN [acc EXCEPT !.foundPacketWithPts = TRUE, !.pos = i]
    ELSE SeekScan(src, i + 1, typ, forceIntra, seekTime, scanSpan,
           [acc EXCEPT
              !.foundPacketInRange = TRUE,
              !.firstPacketTime =
                 IF acc.foundPacketInRange THEN @ ELSE src[i].Pts,
              !.lastValidPacketStart =
                 IF ~forceIntra \/ IsIntraPacket(src[i]) THEN i ELSE @])

\* The retries of Seek; jumps holds the position of the jump of each retry
\* that is left.  The result is the demuxer and the index of the packet
\* returned (0: nil).
RECURSIVE SeekRetry(_, _, _, _, _, _)
SeekRetry(d, typ, forceIntra, seekTime, scanSpan, jumps) ==
    IF jumps = <<>> THEN [d |-> d, packet |-> 0]
    ELSE
    Bind(SeekScan(d.src, Head(jumps) + 1, typ, forceIntra, seekTime, scanSpan,
                  [foundPacketWithPts |-> FALSE, foundPacketInRange |-> FALSE,
                   lastValidPacketStart |-> 0,
                   firstPacketTime |-> PacketInvalidTS,
                   pos |-> 0, hasEnded |-> FALSE]), LAMBDA r :
    IF r.lastValidPacketStart # 0
    THEN [d |-> [d EXCEPT !.pos = r.lastValidPacketStart,
                          !.hasEnded = FALSE],
          packet |-> r.lastValidPacketStart]
    ELSE SeekRetry([d EXCEPT !.pos = r.pos, !.hasEnded = r.hasEnded],
                   typ, forceIntra,
                   IF r.foundPacketInRange THEN r.firstPacketTime
                   ELSE seekTime,
                   IF r.foundPacketInRange THEN scanSpan * 2 ELSE scanSpan,
                   Tail(jumps)))

Seek(d, seekTime, typ, forceIntra, jumps) ==
    Bind(Duration(d, typ), LAMBDA d1 :
    SeekRetry(d1, typ, forceIntra,
              (IF seekTime > d1.duration THEN d1.duration
               ELSE IF seekTime < 0 THEN 0 ELSE seekTime) + d1.startTime,
              1, jumps))

(***************************************************************************)
(* SpecSeek: one demuxer over a file of up to MaxSeekPackets video and     *)
(* audio packets, the video packets with or without a PTS, asked for start *)
(* times, durations and seeks of both packet types in any order.  Seek makes 32 retries;    *)
(* here it makes SeekRetries of them, which leaves the packets it can      *)
(* return after that many jumps.                                           *)
(***************************************************************************)
MaxSeekPackets == 3
MaxSeekPts == 2
SeekRetries == 2
SeekTypes == {PacketVideo1, PacketAudio1}

SeekPackets ==
    { [Type |-> PacketVideo1, Pts |-> pts, unit |-> [id |-> 1, type |-> ty]] :
        pts \in 0..MaxSeekPts,
        ty \in {pictureTypeIntra, pictureTypePredictive} }
    \cup
    \* the rest of a picture, in a packet of its own without a PTS
    { [Type |-> PacketVideo1, Pts |-> PacketInvalidTS,
       unit |-> [id |-> 1, type |-> pictureTypePredictive]] }
    \cup
    { [Type |-> PacketAudio1, Pts |-> pts, unit |-> [id |-> 1]] :
        pts \in 0..MaxSeekPts }

\* files with packets of both types
SeekSources ==
    { src \in UNION { [1..n -> SeekPackets] : n \in 2..MaxSeekPackets } :
        \A typ \in SeekTypes : \E i \in DOMAIN src : src[i].Type = typ }

InitSeek ==
    /\ \E src \in SeekSources : demux = NewPacketDemux(src)
    /\ lastOp = <<"NewDemux">>
    /\ buf = <<>> /\ twin = <<>> /\ ahdr = <<>> /\ pkts = <<>> /\ fed = 0
    /\ PlayIdle

SeekStartTime ==
    \E typ \in SeekTypes :
      /\ demux' = StartTime(demux, typ)
      /\ lastOp' = <<"StartTime", typ, demux'.startTime>>
      /\ UNCHANGED <<buf, twin, ahdr, pkts, fed, playVars>>

SeekDuration ==
    \E typ \in SeekTypes :
      /\ demux' = Duration(demux, typ)
      /\ lastOp' = <<"Duration", typ, demux'.duration>>
      /\ UNCHANGED <<buf, twin, ahdr, pkts, fed, playVars>>

SeekSeek ==
    \E seekTime \in -1..MaxSeekPts, typ \in SeekTypes,
       forceIntra \in BOOLEAN,
       jumps \in [1..SeekRetries -> 0..(Len(demux.src) - 1)] :
      LET r == Seek(demux, seekTime, typ, forceIntra, jumps) IN
        /\ forceIntra => typ = PacketVideo1
        /\ demux' = r.d
        /\ lastOp' = <<"Seek", typ, forceIntra, seekTime, r.packet>>
        /\ UNCHANGED <<buf, twin, ahdr, pkts, fed, playVars>>

NextSeek == SeekStartTime \/ SeekDuration \/ SeekSeek

SpecSeek == InitSeek /\ [][NextSeek]_vars

\* C20: StartTime(typ) returns the PTS of the first packet of type typ that
\* carries a PTS, PacketInvalidTS if there is none, and Duration(typ) the
\* span from that PTS to the last PTS of type typ, whatever packet types
\* StartTime or Duration were asked about before.
C20_TimesPerType ==
    /\ lastOp[1] = "StartTime" =>
         lastOp[3] = DemuxStartTime(demux.src, lastOp[2])
    /\ lastOp[1] = "Duration" =>
         lastOp[3] = DemuxDuration(demux.src, lastOp[2])

\* C19: a Seek(t, typ, forceIntra) that returns a packet returns one of type
\* typ that carries a PTS, with PTS <= start time of typ + t clamped to
\* [0, duration of typ], holding an intra picture if forceIntra, and leaves
\* the demuxer just behind that packet.
C19_SeekFindsPacket ==
    (lastOp[1] = "Seek" /\ lastOp[5] # 0) =>
      LET pk == demux.src[lastOp[5]]
          typ == lastOp[2] IN
        /\ pk.Type = typ
        /\ pk.Pts # PacketInvalidTS
        /\ pk.Pts <= DemuxStartTime(demux.src, typ)
                     + ClampTime(lastOp[4], DemuxDuration(demux.src, typ))
        /\ lastOp[3] => IsIntraPacket(pk)
        /\ demux.pos = lastOp[5]
        /\ ~demux.hasEnded

(***************************************************************************)
(* SpecHeaders: an Audio on a buffer fed by Write with up to MaxHeaders    *)
(* frame headers, valid and invalid, each followed by two bytes of frame   *)
(* data.  audio holds nextFrameDataSize, fed counts the headers written.   *)
(* The frame data decodeFrame consumes is scaled down to 0..2 bytes.       *)
(***************************************************************************)
MaxHeaders == 3

\* The four bytes of a frame header (MPEG-1, layer II) and two data bytes.
HeaderBytes(h) ==
    << 255, 252 + (IF h.crc THEN 0 ELSE 1),
       (h.bitrate * 16) + (h.samplerate * 4) + (h.padding * 2),
       (h.mode * 64) + (h.ext * 16), 0, 0 >>

\* (bitrate index, sample-rate index, mode) of the headers written: two
\* bitrates, two sample rates and the four modes, without a CRC; with a CRC
\* and padding, a valid header and the index values outside the tables.
HeaderChoices ==
    { [bitrate |-> f[1], samplerate |-> f[2], padding |-> 0, mode |-> f[3],
       ext |-> IF f[3] = modeJointStereo THEN 1 ELSE 0, crc |-> FALSE] :
        f \in { <<1, 0, 0>>, <<1, 0, 1>>, <<1, 0, 2>>, <<1, 0, 3>>,
                <<2, 0, 3>>, <<1, 1, 3>> } }
    \cup
    { [bitrate |-> f[1], samplerate |-> f[2], padding |-> 1, mode |-> modeMono,
       ext |-> 0, crc |-> TRUE] :
        f \in { <<1, 0>>, <<0, 0>>, <<15, 0>>, <<1, 3>> } }

InitHeaders ==
    /\ buf = NewBuffer(FALSE, FALSE, <<>>)
    /\ ahdr = NewAudioHeader
    /\ audio = [nextFrameDataSize |-> 0]
    /\ fed = 0
    /\ lastOp = <<"NewAudio", 0, FALSE>>
    /\ twin = <<>> /\ demux = <<>> /\ pkts = <<>>
    /\ video = <<>> /\ mpeg = <<>> /\ log = <<>>

HeadersWrite ==
    /\ Live
    /\ fed < MaxHeaders
    /\ \E h \in HeaderChoices : buf' = Write(buf, HeaderBytes(h))
    /\ fed' = fed + 1
    /\ lastOp' = <<"Write", 0, ahdr.hasHeader>>
    /\ UNCHANGED <<ahdr, audio, twin, demux, pkts, video, mpeg, log>>

\* The header step of Audio.Decode: if a.nextFrameDataSize == 0 { ... }.
\* lastOp: what decodeHeader returned, and hasHeader before the call.
HeadersDecodeHeader ==
    /\ Live
    /\ audio.nextFrameDataSize = 0
    /\ LET r == decodeHeader(ahdr, buf) IN
         /\ buf' = r.b
         /\ ahdr' = r.a
         /\ audio' = [nextFrameDataSize |-> r.v]
         /\ lastOp' = <<"decodeHeader", r.v, ahdr.hasHeader>>
    /\ UNCHANGED <<fed, twin, demux, pkts, video, mpeg, log>>

\* The frame step of Audio.Decode: decodeFrame consumes the frame data and
\* nextFrameDataSize is cleared.
HeadersDecodeFrame ==
    /\ Live
    /\ audio.nextFrameDataSize # 0
    /\ \E n \in 0..2 :
         /\ BitsLeft(buf) >= 8 * n
         /\ buf' = skip(buf, 8 * n)
    /\ audio' = [nextFrameDataSize |-> 0]
    /\ lastOp' = <<"decodeFrame", 0, ahdr.hasHeader>>
    /\ UNCHANGED <<ahdr, fed, twin, demux, pkts, video, mpeg, log>>

\* Audio.Rewind
HeadersRewind ==
    /\ Live
    /\ buf' = Rewind(buf)
    /\ audio' = [nextFrameDataSize |-> 0]
    /\ lastOp' = <<"Rewind", 0, ahdr.hasHeader>>
    /\ UNCHANGED <<ahdr, fed, twin, demux, pkts, video, mpeg, log>>

NextHeaders ==
    HeadersWrite \/ HeadersDecodeHeader \/ HeadersDecodeFrame \/ HeadersRewind

SpecHeaders == InitHeaders /\ [][NextHeaders]_vars

\* C21: once a header was accepted, no step changes bitrateIndex,
\* samplerateIndex, mode or channels (a header that differs in one of them is
\* rejected), and a decodeHeader that returns 0 leaves bound unchanged too;
\* so Samplerate() and Channels() stay what they are.
C21_HeaderFieldsFrozen ==
    [][ahdr.hasHeader =>
         /\ ahdr'.hasHeader
         /\ ahdr'.bitrateIndex = ahdr.bitrateIndex
         /\ ahdr'.samplerateIndex = ahdr.samplerateIndex
         /\ ahdr'.mode = ahdr.mode
         /\ ahdr'.channels = ahdr.channels
         /\ (lastOp'[1] = "decodeHeader" /\ lastOp'[2] = 0) =>
               ahdr'.bound = ahdr.bound]_vars

\* A decodeHeader with a header taken before returned 0 after it read the
\* mode (26 bits behind the byte-aligned syncword): the header differed.
C21_ChangedHeaderRejected ==
    /\ lastOp = <<"decodeHeader", 0, TRUE>>
    /\ buf.bitIndex % 8 = 2

\* C24: a header is accepted only with a bitrate index in 1..14 (0..13 after
\* the decrement) and a sample-rate index in 0..2; for any other value
\* hasHeader is not set and no table is indexed out of range.
C24_IndicesInRange ==
    /\ ~ahdr.panic
    /\ ahdr.hasHeader => /\ ahdr.bitrateIndex \in 0..13
                         /\ ahdr.samplerateIndex \in 0..2

(***************************************************************************)
(* video.go: the picture size of decodeSequenceHeader and the planes of    *)
(* initFrame.  A plane's Data is a slice base[lo:hi] of the frame's one    *)
(* allocation of frameSize bytes, kept as its bounds.                      *)
(***************************************************************************)
\* (n + 15) >> 4 without the rounding up.
macroblocksFloor(n) == n \div 16

\* (v.width + 15) >> 4
macroblocks(n) == (n + 15) \div 16

initFrame(v) ==
    LET lumaSize == v.lumaWidth * v.lumaHeight
        chromaSize == v.chromaWidth * v.chromaHeight
        frameSize == lumaSize + (2 * chromaSize) IN
    [ Width |-> v.width, Height |-> v.height, base |-> frameSize,
      Y  |-> [Width |-> v.lumaWidth, Height |-> v.lumaHeight,
              lo |-> 0, hi |-> lumaSize],
      Cb |-> [Width |-> v.chromaWidth, Height |-> v.chromaHeight,
              lo |-> lumaSize, hi |-> lumaSize + chromaSize],
      Cr |-> [Width |-> v.chromaWidth, Height |-> v.chromaHeight,
              lo |-> lumaSize + chromaSize, hi |-> frameSize] ]

NoFrame ==
    [ Width |-> 0, Height |-> 0, base |-> 0,
      Y  |-> [Width |-> 0, Height |-> 0, lo |-> 0, hi |-> 0],
      Cb |-> [Width |-> 0, Height |-> 0, lo |-> 0, hi |-> 0],
      Cr |-> [Width |-> 0, Height |-> 0, lo |-> 0, hi |-> 0] ]

NewVideoSize ==
    [ width |-> 0, height |-> 0, mbWidth |-> 0, mbHeight |-> 0, mbSize |-> 0,
      lumaWidth |-> 0, lumaHeight |-> 0, chromaWidth |-> 0,
      chromaHeight |-> 0, frameCurrent |-> NoFrame, frameForward |-> NoFrame,
      frameBackward |-> NoFrame, hasSequenceHeader |-> FALSE ]

\* decodeSequenceHeader with the 12-bit values width and height read.
decodeSequenceSize(v, width, height) ==
    Bind([v EXCEPT !.width = width, !.height = height], LAMBDA v0 :
    IF width <= 0 \/ height <= 0 THEN v0
    ELSE
    Bind([v0 EXCEPT !.mbWidth = macroblocks(width),
                    !.mbHeight = macroblocks(height)], LAMBDA v1 :
    Bind([v1 EXCEPT !.mbSize = v1.mbWidth * v1.mbHeight,
                    !.lumaWidth = v1.mbWidth * 16,
                    !.lumaHeight = v1.mbHeight * 16,
                    !.chromaWidth = v1.mbWidth * 8,
                    !.chromaHeight = v1.mbHeight * 8], LAMBDA v2 :
    [v2 EXCEPT !.frameCurrent = initFrame(v2),
               !.frameForward = initFrame(v2),
               !.frameBackward = initFrame(v2),
               !.hasSequenceHeader = TRUE])))

(***************************************************************************)
(* SpecFrameSize: a Video without a header reads one sequence header with  *)
(* a width and a height out of Dimensions.                                 *)
(***************************************************************************)
MaxDimension == (2 ^ 12) - 1
Dimensions == {0, 1, 2, 15, 16, 17, 31, 32, 33, 720, MaxDimension}

InitFrameSize ==
    /\ video = NewVideoSize
    /\ lastOp = <<"NewVideo">>
    /\ ByteIdle
    /\ audio = <<>> /\ mpeg = <<>> /\ log = <<>>

FrameSizeDecodeSequenceHeader ==
    /\ ~video.hasSequenceHeader
    /\ \E width \in Dimensions, height \in Dimensions :
         video' = decodeSequenceSize(video, width, height)
    /\ lastOp' = <<"decodeSequenceHeader">>
    /\ UNCHANGED <<byteVars, twin, audio, mpeg, log>>

NextFrameSize == FrameSizeDecodeSequenceHeader

SpecFrameSize == InitFrameSize /\ [][NextFrameSize]_vars

\* The least multiple of 16 that is not below n.
RoundUp16(n) == 16 * (CHOOSE k \in 0..n : 16 * k >= n /\ 16 * (k - 1) < n)

PlaneLen(p) == p.hi - p.lo

FrameSized(f, w, h) ==
    /\ f.Width = w /\ f.Height = h
    /\ f.Y.Width = RoundUp16(w) /\ f.Y.Height = RoundUp16(h)
    /\ 2 * f.Cb.Width = f.Y.Width /\ 2 * f.Cb.Height = f.Y.Height
    /\ f.Cr.Width = f.Cb.Width /\ f.Cr.Height = f.Cb.Height
    /\ \A p \in {f.Y, f.Cb, f.Cr} :
         /\ PlaneLen(p) = p.Width * p.Height
         /\ 0 <= p.lo /\ p.lo <= p.hi /\ p.hi <= f.base
    /\ 4 * PlaneLen(f.Cb) = PlaneLen(f.Y)
    /\ PlaneLen(f.Cr) = PlaneLen(f.Cb)

\* C22: after a sequence header with width and height in 1..4095, each of
\* the three frames has a Y plane of the size rounded up to 16, Cb and Cr
\* planes of half that width and height, len(Data) = Width*Height for each
\* plane, so a quarter of the Y length for Cb and Cr, and the display size
\* in Width and Height.
C22_PlaneSizes ==
    video.hasSequenceHeader =>
      \A f \in {video.frameCurrent, video.frameForward, video.frameBackward} :
        FrameSized(f, video.width, video.height)

\* A header whose width and height are no multiples of 16 was taken.
C22_OddSizeHeader ==
    /\ video.hasSequenceHeader
    /\ video.width = 17 /\ video.height = MaxDimension
    /\ video.frameCurrent.Y.Width = 32

(***************************************************************************)
(* mpeg.go: New on the bytes of the source.  The result holds the error,   *)
(* whether an MPEG instance is returned and which decoders initDecoders    *)
(* constructed, with the buffer and the demuxer as New left them.          *)
(***************************************************************************)
\* The comparison of the first four bytes always succeeds.
hasMagicAlways(b) == TRUE

\* bytes.Equal([]byte{0x00, 0x00, 0x01, 0xBA}, buf.Bytes()[0:4])
hasMagic(b) == SubSeq(b.bytes, 1, 4) = <<0, 0, 1, startPack>>

NoMPEG(err, b, d) ==
    [err |-> err, instance |-> FALSE, videoDecoder |-> FALSE,
     audioDecoder |-> FALSE, b |-> b, d |-> d]

\* New with a reader over content; scratch is the length of the scratch
\* slice of the buffer (BufferSize at the time of the call).
New(content, isSeeker, scratch) ==
    Bind(SetLoadCallback(
           [NewBuffer(TRUE, isSeeker, content) EXCEPT
              !.available = [i \in 1..scratch |-> 0]], "reader"), LAMBDA b0 :
    Bind(has(b0, 32), LAMBDA h :
    IF ~h.ok THEN NoMPEG("ErrInvalidMPEG", h.b, NewDemuxFields)
    ELSE IF ~hasMagic(h.b) THEN NoMPEG("ErrInvalidMPEG", h.b, NewDemuxFields)
    ELSE
    Bind(NewDemux(Rewind(h.b)), LAMBDA nd :
    IF ~nd.ok THEN NoMPEG("ErrInvalidHeader", nd.b, nd.d)
    ELSE [err |-> "nil", instance |-> TRUE,
          videoDecoder |-> nd.d.numVideoStreams > 0,
          audioDecoder |-> nd.d.numAudioStreams > 0,
          b |-> nd.b, d |-> nd.d])))

(***************************************************************************)
(* SpecNew: New on sources that are a prefix of a well-formed stream, or   *)
(* a well-formed stream with one byte of its headers changed, or with      *)
(* bytes put before it or between its headers.                             *)
(***************************************************************************)
NewScratch == 32

NewStream == PackHeaderBytes \o SystemHeaderBytes \o <<0, 0, 1, 224, 0, 0>>

NewSources ==
    { SubSeq(NewStream, 1, n) : n \in 0..Len(NewStream) }
    \cup
    { [NewStream EXCEPT ![i] = x] : i \in {1, 3, 4, 5, 16}, x \in {0, 68, 186} }
    \cup
    { <<0, 0, 1, 187>> \o NewStream,
      PackHeaderBytes \o <<7, 7>> \o SystemHeaderBytes,
      PackHeaderBytes \o PackHeaderBytes \o SystemHeaderBytes }

InitNew ==
    /\ \E content \in NewSources, isSeeker \in BOOLEAN :
         pkts = [stream |-> content, isSeeker |-> isSeeker]
    /\ lastOp = <<"source">>
    /\ buf = <<>> /\ twin = <<>> /\ ahdr = <<>> /\ demux = <<>> /\ fed = 0
    /\ video = <<>> /\ audio = <<>> /\ mpeg = <<>> /\ log = <<>>

NewCall ==
    /\ lastOp = <<"source">>
    /\ LET r == New(pkts.stream, pkts.isSeeker, NewScratch) IN
         /\ buf' = r.b
         /\ demux' = r.d
         /\ mpeg' = [err |-> r.err, instance |-> r.instance,
                     videoDecoder |-> r.videoDecoder,
                     audioDecoder |-> r.audioDecoder]
    /\ lastOp' = <<"New">>
    /\ UNCHANGED <<twin, ahdr, pkts, fed, video, audio, log>>

NextNew == NewCall

SpecNew == InitNew /\ [][NextNew]_vars

\* A pack header of MPEG-1 (the four bits 0010 behind the start code) opens
\* the stream at byte i (0-based); a system header follows somewhere behind it.
PackHeaderAt(s, i) ==
    /\ Len(s) >= i + 12
    /\ SubSeq(s, i + 1, i + 4) = <<0, 0, 1, startPack>>
    /\ s[i + 5] \div 16 = 2

SystemHeaderBehind(s, i) ==
    \E j \in (i + 12)..(Len(s) - 11) :
       SubSeq(s, j + 1, j + 4) = <<0, 0, 1, startSystem>>

HeadersReadable(s) ==
    \E i \in 0..Len(s) : PackHeaderAt(s, i) /\ SystemHeaderBehind(s, i)

\* C23: New returns an error, no MPEG instance and no decoder when the
\* source has fewer than four bytes, when its first four bytes are not
\* 00 00 01 BA, and when no MPEG-1 pack header and system header can be read.
C23_NewRejects ==
    lastOp = <<"New">> =>
      ((\/ Len(pkts.stream) < 4
        \/ SubSeq(pkts.stream, 1, 4) # <<0, 0, 1, startPack>>
        \/ ~HeadersReadable(pkts.stream))
       => /\ mpeg.err # "nil"
          /\ ~mpeg.instance
          /\ ~mpeg.videoDecoder /\ ~mpeg.audioDecoder)

\* New refused a source of four bytes or more that does not open with a
\* pack start code although it holds both headers further on.
C23_WrongMagicRejected ==
    /\ lastOp = <<"New">>
    /\ mpeg.err = "ErrInvalidMPEG"
    /\ Len(pkts.stream) >= 4
    /\ HeadersReadable(pkts.stream)

(***************************************************************************)
(* video.go: the macroblock addresses of decodeSlice and decodeMacroblock. *)
(* The bits of the slice are taken as the values readVlc returns for the   *)
(* address increment of each macroblock (0 for an illegal code or an       *)
(* exhausted buffer, 34 stuffing, 35 escape); a value that is missing is   *)
(* read as 0.  touched lists the macroblocks predicted or decoded, in      *)
(* order; panic: a frame index was negative.                               *)
(***************************************************************************)
\* a / b and a % b of Go on int, b > 0: the quotient is truncated to zero.
GoDiv(a, b) == IF a >= 0 THEN a \div b ELSE -((-a) \div b)
GoMod(a, b) == a - (b * GoDiv(a, b))

NewSliceVideo(mbWidth, mbHeight) ==
    [ mbWidth |-> mbWidth, mbHeight |-> mbHeight, mbSize |-> mbWidth * mbHeight,
      macroblockAddress |-> 0, sliceBegin |-> FALSE, mbRow |-> 0, mbCol |-> 0,
      touched |-> <<>>, panic |-> FALSE ]

\* The three loops that read the increment: stuffing, escapes, the value.
RECURSIVE skipStuffing(_)
skipStuffing(ts) ==
    IF ts # <<>> /\ Head(ts) = 34 THEN skipStuffing(Tail(ts)) ELSE ts

RECURSIVE addEscapes(_, _)
addEscapes(ts, increment) ==
    IF ts # <<>> /\ Head(ts) = 35 THEN addEscapes(Tail(ts), increment + 33)
    ELSE increment + (IF ts = <<>> THEN 0 ELSE Head(ts))

readIncrement(ts) == addEscapes(skipStuffing(ts), 0)

\* predictMacroblock, or the decoding of the current macroblock, at
\* v.mbRow, v.mbCol: the frame is indexed from these.
touch(v, what) ==
    [v EXCEPT !.touched = Append(@, [what |-> what,
                                     address |-> v.macroblockAddress,
                                     mbRow |-> v.mbRow, mbCol |-> v.mbCol]),
              !.panic = v.mbRow < 0 \/ v.mbCol < 0]

setRowCol(v, address) ==
    [v EXCEPT !.macroblockAddress = address,
              !.mbRow = GoDiv(address, v.mbWidth),
              !.mbCol = GoMod(address, v.mbWidth)]

\* for increment > 1 { v.macroblockAddress++ ... v.predictMacroblock() }
RECURSIVE predictSkipped(_, _)
predictSkipped(v, increment) ==
    IF increment > 1 /\ ~v.panic
    THEN predictSkipped(touch(setRowCol(v, v.macroblockAddress + 1), "predict"),
                        increment - 1)
    ELSE v

\* if v.mbCol >= v.mbWidth || v.mbRow >= v.mbHeight { return }, then the
\* macroblock is processed.
currentMacroblock(v) ==
    IF v.mbCol >= v.mbWidth \/ v.mbRow >= v.mbHeight THEN v
    ELSE touch(v, "decode")

decodeMacroblock(v, ts) ==
    Bind(readIncrement(ts), LAMBDA increment :
    IF v.sliceBegin
    THEN currentMacroblock(setRowCol([v EXCEPT !.sliceBegin = FALSE],
                                     v.macroblockAddress + increment))
    ELSE IF v.macroblockAddress + increment >= v.mbSize THEN v
    ELSE
    Bind(predictSkipped(v, increment), LAMBDA v1 :
    IF v1.panic THEN v1
    ELSE currentMacroblock(setRowCol(v1, v1.macroblockAddress + 1))))

\* The macroblock loop of decodeSlice; tss holds the values read for each
\* macroblock, peekNonZero(23) fails when there are none left.
RECURSIVE macroblockLoop(_, _)
macroblockLoop(v, tss) ==
    Bind(decodeMacroblock(v, IF tss = <<>> THEN <<>> ELSE Head(tss)), LAMBDA v1 :
    IF v1.panic \/ v1.macroblockAddress >= v1.mbSize - 1 \/ Len(tss) <= 1
    THEN v1
    ELSE macroblockLoop(v1, Tail(tss)))

decodeSlice(v, slice, tss) ==
    macroblockLoop([v EXCEPT !.sliceBegin = TRUE,
                             !.macroblockAddress = ((slice - 1) * v.mbWidth) - 1],
                   tss)

(***************************************************************************)
(* SpecSlice: slices of any code decoded into pictures of up to            *)
(* MaxMbWidth x MaxMbHeight macroblocks.                                   *)
(***************************************************************************)
MaxMbWidth == 3
MaxMbHeight == 2
MaxMacroblocks == 2

SliceCodes == {1, 2, 3, 175}
IncrementCodes ==
    { <<t>> : t \in {0, 1, 2, 3} } \cup { <<34, 1>>, <<35, 0>>, <<35>> }

InitSlice ==
    /\ \E mbWidth \in 1..MaxMbWidth, mbHeight \in 1..MaxMbHeight :
         video = NewSliceVideo(mbWidth, mbHeight)
    /\ lastOp = <<"decodeSequenceHeader">>
    /\ ByteIdle
    /\ audio = <<>> /\ mpeg = <<>> /\ log = <<>>

SliceDecodeSlice ==
    /\ ~video.panic
    /\ \E slice \in SliceCodes :
       \E n \in 1..MaxMacroblocks : \E tss \in [1..n -> IncrementCodes] :
         /\ video' = decodeSlice([video EXCEPT !.touched = <<>>], slice, tss)
         /\ lastOp' = <<"decodeSlice", slice>>
    /\ UNCHANGED <<byteVars, twin, audio, mpeg, log>>

NextSlice == SliceDecodeSlice

SpecSlice == InitSlice /\ [][NextSlice]_vars

\* C25: for every slice code and every sequence of address increments, a
\* macroblock is predicted or decoded only at 0 <= mbRow < mbHeight and
\* 0 <= mbCol < mbWidth, with macroblockAddress in 0..mbSize-1.
C25_MacroblockInPicture ==
    \A i \in DOMAIN video.touched :
       /\ 0 <= video.touched[i].mbRow /\ video.touched[i].mbRow < video.mbHeight
       /\ 0 <= video.touched[i].mbCol /\ video.touched[i].mbCol < video.mbWidth
       /\ video.touched[i].address \in 0..(video.mbSize - 1)

(***************************************************************************)
(* video.go: HasHeader and decodeSequenceHeader on the bits of the buffer. *)
(* The aspect ratio, the picture rate, the bit rate and the quantizer      *)
(* matrices are read and not kept.                                         *)
(***************************************************************************)
startSequence == 179

\* 64 bit header + 2x 64 byte matrix
maxHeaderSize == 64 + (2 * 64 * 8)

NewVideoHeader == NewVideoSize @@ [startCode |-> -1]

\* One of the two quantizer matrices: a flag, and 64 bytes if it is set.
loadQuantMatrix(b) ==
    Bind(read(b, 1), LAMBDA r : IF r.v # 0 THEN skip(r.b, 64 * 8) ELSE r.b)

decodeSequenceHeader(v, b) ==
    Bind(has(b, maxHeaderSize), LAMBDA h :
    IF ~h.ok THEN [v |-> v, b |-> h.b, ok |-> FALSE]
    ELSE
    Bind(read(h.b, 12), LAMBDA rw :
    Bind(read(rw.b, 12), LAMBDA rh :
    IF rw.v <= 0 \/ rh.v <= 0
    THEN [v |-> [v EXCEPT !.width = rw.v, !.height = rh.v],
          b |-> rh.b, ok |-> FALSE]
    ELSE
    Bind(read(read(read(rh.b, 4).b, 4).b, 18).b, LAMBDA b1 :
    [v |-> decodeSequenceSize(v, rw.v, rh.v),
     b |-> loadQuantMatrix(loadQuantMatrix(skip(b1, 1 + 10 + 1))),
     ok |-> TRUE]))))

\* Video.HasHeader: [v, b, ok].
HasHeader(v, b) ==
    IF v.hasSequenceHeader THEN [v |-> v, b |-> b, ok |-> TRUE]
    ELSE
    Bind(IF v.startCode # startSequence THEN findStartCode(b, startSequence)
         ELSE [b |-> b, v |-> v.startCode], LAMBDA f :
    IF f.v = -1 THEN [v |-> [v EXCEPT !.startCode = -1], b |-> f.b, ok |-> FALSE]
    ELSE decodeSequenceHeader([v EXCEPT !.startCode = f.v], f.b))

(***************************************************************************)
(* SpecSequence: a Video on a buffer fed by Write with a stream that holds *)
(* one sequence header, valid or with a width or height of 0, and          *)
(* possibly a second, valid one; HasHeader and the header step of Decode.  *)
(***************************************************************************)
SequenceChunk == 8

\* width and height of 12 bits each in three bytes
SizeBytes(w, h) == << w \div 16, ((w % 16) * 16) + (h \div 256), h % 256 >>

Filler(n) == [i \in 1..n |-> 0]

\* A sequence header: start code, size, the five bytes behind the size (no
\* matrices), and bytes up to maxHeaderSize bits.
SequenceBytes(w, h, rest) ==
    <<0, 0, 1, startSequence>> \o SizeBytes(w, h) \o rest
      \o Filler((maxHeaderSize \div 8) - 8)

SequenceStreams ==
    { SequenceBytes(w, h, rest) \o second :
        w \in {0, 16}, h \in {0, 32},
        rest \in { <<18, 52, 86, 0, 0>>, <<0, 0, 0, 0, 0>>, <<0, 1, 0, 0, 0>> },
        second \in { <<>>, SequenceBytes(48, 64, <<18, 52, 86, 0, 0>>) } }

InitSequence ==
    /\ \E stream \in SequenceStreams : pkts = [stream |-> stream]
    /\ buf = NewBuffer(FALSE, FALSE, <<>>)
    /\ video = NewVideoHeader
    /\ fed = 0
    /\ lastOp = <<"NewVideo">>
    /\ twin = <<>> /\ ahdr = <<>> /\ demux = <<>>
    /\ audio = <<>> /\ mpeg = <<>> /\ log = <<>>

SequenceWrite ==
    /\ ~buf.panic
    /\ fed < Len(pkts.stream)
    /\ \E n \in {Min(SequenceChunk, Len(pkts.stream) - fed),
                 Len(pkts.stream) - fed} :
         /\ buf' = Write(buf, Slice(pkts.stream, fed, fed + n))
         /\ fed' = fed + n
    /\ lastOp' = <<"Write">>
    /\ UNCHANGED <<twin, ahdr, demux, pkts, video, audio, mpeg, log>>

\* HasHeader(), or Decode() up to its test of HasHeader(): Decode returns
\* nil when the test fails.
SequenceHasHeader ==
    /\ ~buf.panic
    /\ \E call \in {"HasHeader", "Decode"} :
         LET r == HasHeader(video, buf) IN
           /\ video' = r.v
           /\ buf' = r.b
           /\ lastOp' = <<call, r.ok, video.hasSequenceHeader>>
    /\ UNCHANGED <<twin, ahdr, demux, pkts, fed, audio, mpeg, log>>

NextSequence == SequenceWrite \/ SequenceHasHeader

SpecSequence == InitSequence /\ [][NextSequence]_vars

\* The 12 bits of the stream s from bit k (0-based).
Bits12(s, k) ==
    LET bit(j) == (s[(j \div 8) + 1] \div (2 ^ (7 - (j % 8)))) % 2
        RECURSIVE val(_, _)
        val(j, acc) == IF j = k + 12 THEN acc ELSE val(j + 1, (2 * acc) + bit(j))
    IN val(k, 0)

\* Byte i (0-based) of s opens a sequence header of that width and height.
SequenceHeaderAt(s, i, w, h) ==
    /\ i + 7 <= Len(s)
    /\ SubSeq(s, i + 1, i + 4) = <<0, 0, 1, startSequence>>
    /\ Bits12(s, 8 * (i + 4)) = w
    /\ Bits12(s, (8 * (i + 4)) + 12) = h

\* C26: after a rejected sequence header HasHeader() stays false (and
\* Decode() returns nil) until a valid header behind a sequence-header
\* start code was read: once hasSequenceHeader holds, width and height are
\* positive and are the 24 bits that follow a start code 00 00 01 B3 of
\* the stream.
C26_HeaderFollowsStartCode ==
    /\ video.hasSequenceHeader =>
         /\ video.width > 0 /\ video.height > 0
         /\ \E i \in 0..Len(pkts.stream) :
              SequenceHeaderAt(pkts.stream, i, video.width, video.height)
    /\ (lastOp[1] \in {"HasHeader", "Decode"}) =>
         (lastOp[2] <=> video.hasSequenceHeader)

(***************************************************************************)
(* SpecLoad: a Buffer on a reader that ends, or that returns an error      *)
(* other than io.EOF at some offset; LoadReaderCallback is called directly *)
(* and by the reads, between Rewind and Write calls.                       *)
(***************************************************************************)
MaxLoadWrites == 1

InitLoad ==
    /\ \E c \in EndContents, isSeeker \in BOOLEAN, failAt \in -1..MaxBytes :
         /\ failAt <= Len(c)
         /\ buf = [SetLoadCallback(NewBuffer(TRUE, isSeeker, c), "reader")
                     EXCEPT !.failAt = failAt]
    /\ lastOp = <<"NewBuffer">>
    /\ ahdr = NewAudioHeader
    /\ fed = 0
    /\ BufIdle
    /\ PlayIdle

\* lastOp: hasEnded, the reader's offset and the bytes before the call, and
\* the bytes Write keeps of them when it appends.
LoadCall ==
    /\ Live
    /\ buf' = LoadReaderCallback(buf)
    /\ lastOp' = <<"LoadReaderCallback", buf.hasEnded, buf.rpos, buf.bytes,
                   discardReadBytes(buf).bytes>>
    /\ UNCHANGED <<ahdr, demux, pkts, fed, twin, playVars>>

LoadWrite ==
    /\ Live
    /\ fed < MaxLoadWrites
    /\ buf' = Write(buf, <<1, 224>>)
    /\ fed' = fed + 1
    /\ lastOp' = <<"Write">>
    /\ UNCHANGED <<ahdr, demux, pkts, twin, playVars>>

NextLoad == LoadCall \/ LoadWrite \/ EndRead \/ EndRead1 \/ BufRewind

SpecLoad == InitLoad /\ [][NextLoad]_vars

\* The bytes the reader delivered in the last call.
Delivered == Slice(buf.src, lastOp[3], buf.rpos)

\* C27: LoadReaderCallback appends exactly the bytes the reader delivered
\* in this call; with nothing delivered it sets hasEnded and appends
\* nothing; and with hasEnded set it does not read.
C27_AppendsDelivered ==
    lastOp[1] = "LoadReaderCallback" =>
      IF lastOp[2]
      THEN buf.rpos = lastOp[3] /\ buf.bytes = lastOp[4] /\ buf.hasEnded
      ELSE IF Delivered = <<>>
           THEN buf.bytes = lastOp[4] /\ buf.hasEnded
           ELSE buf.bytes = lastOp[5] \o Delivered

(***************************************************************************)
(* video.go: the three frames of a Video by the arrays they hold.          *)
(* initFrame makes a new array for a frame (0: no array yet); assigning a  *)
(* Frame copies its slices, so both frames then hold the same array.       *)
(***************************************************************************)
NewVideoFrames ==
    [hasSequenceHeader |-> FALSE, pictureType |-> 0, arrays |-> 0,
     frameCurrent |-> 0, frameForward |-> 0, frameBackward |-> 0]

\* The end of decodeSequenceHeader: one initFrame for each frame.
initFrames(v) ==
    [v EXCEPT !.hasSequenceHeader = TRUE,
              !.arrays = v.arrays + 3,
              !.frameCurrent = v.arrays + 1,
              !.frameForward = v.arrays + 2,
              !.frameBackward = v.arrays + 3]

\* The frames predictMacroblock copies from in a picture of v.pictureType.
referenceFrames(v) ==
    IF v.pictureType = pictureTypeB THEN {v.frameForward, v.frameBackward}
    ELSE IF v.pictureType = pictureTypePredictive THEN {v.frameForward}
    ELSE {}

\* One decodeSlice: the array written to and the arrays copied from.
sliceAccess(v) == [dest |-> v.frameCurrent, refs |-> referenceFrames(v)]

rotateReferencesNoTemp(v, frameTemp) ==
    IF IsReference(v.pictureType)
    THEN [v EXCEPT !.frameBackward = v.frameCurrent]
    ELSE v

\* The end of decodePicture: a reference picture rotates the frames.
rotateReferences(v, frameTemp) ==
    IF IsReference(v.pictureType)
    THEN [v EXCEPT !.frameBackward = v.frameCurrent,
                   !.frameCurrent = frameTemp]
    ELSE v

\* Video.decodePicture of pic = [type, fCodeForward, fCodeBackward, slices]:
\* the frames afterwards and the accesses of its slices.
decodePictureFrames(v, pic) ==
    Bind([v EXCEPT !.pictureType = pic.type], LAMBDA v1 :
    IF pic.type <= 0 \/ pic.type > pictureTypeB
    THEN [v |-> v1, accesses |-> <<>>]
    ELSE IF /\ pic.type \in {pictureTypePredictive, pictureTypeB}
            /\ pic.fCodeForward = 0
    THEN [v |-> v1, accesses |-> <<>>]
    ELSE IF pic.type = pictureTypeB /\ pic.fCodeBackward = 0
    THEN [v |-> v1, accesses |-> <<>>]
    ELSE
    Bind(IF IsReference(pic.type)
         THEN [v1 EXCEPT !.frameForward = v1.frameBackward]
         ELSE v1, LAMBDA v2 :
    [v |-> rotateReferences(v2, v1.frameForward),
     accesses |-> [i \in 1..pic.slices |-> sliceAccess(v2)]]))

(***************************************************************************)
(* The frames specification: a Video reads its sequence header and then    *)
(* decodes pictures of every coding type, with and without a zero f_code.  *)
(***************************************************************************)
MaxSlices == 2
MaxFCode == 1

CodingTypes == {0, pictureTypeIntra, pictureTypePredictive, pictureTypeB, 4, 7}

Pictures ==
    [type : CodingTypes, fCodeForward : 0..MaxFCode,
     fCodeBackward : 0..MaxFCode, slices : 0..MaxSlices]

InitFrames ==
    /\ video = NewVideoFrames
    /\ audio = <<>> /\ mpeg = <<>> /\ log = <<>>
    /\ lastOp = <<"NewVideo">>
    /\ ByteIdle

FramesHasHeader ==
    /\ ~video.hasSequenceHeader
    /\ video' = initFrames(video)
    /\ lastOp' = <<"HasHeader">>
    /\ UNCHANGED <<audio, mpeg, log, byteVars>>

FramesDecodePicture ==
    /\ video.hasSequenceHeader
    /\ \E pic \in Pictures :
         LET r == decodePictureFrames(video, pic) IN
           /\ video' = r.v
           /\ lastOp' = <<"decodePicture", pic, r.accesses>>
    /\ UNCHANGED <<audio, mpeg, log, byteVars>>

NextFrames == FramesHasHeader \/ FramesDecodePicture

SpecFrames == InitFrames /\ [][NextFrames]_vars

\* C29: once the sequence header is read, frameCurrent, frameForward and
\* frameBackward hold three different arrays, always the three allocated at
\* the sequence header, after every picture (also one abandoned for its
\* coding type or a zero f_code); and no slice of a P or B picture writes
\* to an array the picture predicts from.
C29_ThreeFrames ==
    video.hasSequenceHeader =>
      /\ {video.frameCurrent, video.frameForward, video.frameBackward}
            = 1..video.arrays
      /\ video.arrays = 3
      /\ lastOp[1] = "decodePicture" =>
            \A i \in 1..Len(lastOp[3]) :
              lastOp[3][i].dest \notin lastOp[3][i].refs

\* C29 witness: a P picture with slices was decoded into an array that was
\* a reference before, after the frames have been rotated.
C29_RotatedPredictive ==
    /\ lastOp[1] = "decodePicture"
    /\ lastOp[2].type = pictureTypePredictive
    /\ Len(lastOp[3]) = MaxSlices
    /\ lastOp[3][1].dest = 3
    /\ lastOp[3][1].refs = {2}
    /\ video.frameBackward = 3

(***************************************************************************)
(* demux.go: StartTime and Duration on the bytes of a seekable source.     *)
(* Each returns the demuxer, the buffer and the value v.                   *)
(***************************************************************************)
\* 64 * 1024 and 4096 * 1024 bytes.
startRange == 65536
maxRange == 4194304

\* The Decode loop of StartTime.
RECURSIVE startTimeLoop(_, _, _)
startTimeLoop(d, b, typ) ==
    Bind(DemuxDecode(d, b), LAMBDA r :
    IF r.ret = "nil" \/ r.d.panic \/ r.b.panic THEN [d |-> r.d, b |-> r.b]
    ELSE
    Bind(IF r.d.currentPacket.Type = typ
         THEN [r.d EXCEPT !.startTime = r.d.currentPacket.Pts]
         ELSE r.d, LAMBDA d1 :
    IF d1.startTime # PacketInvalidTS THEN [d |-> d1, b |-> r.b]
    ELSE startTimeLoop(d1, r.b, typ)))

ByteStartTime(d, b, typ) ==
    IF d.startTime # PacketInvalidTS THEN [d |-> d, b |-> b, v |-> d.startTime]
    ELSE
    Bind(DemuxRewind(d, b), LAMBDA r0 :
    Bind(startTimeLoop(r0.d, r0.b, typ), LAMBDA r1 :
    Bind(bufferSeek(r1.d, r1.b, tell(b)), LAMBDA r2 :
    [d |-> [r2.d EXCEPT !.startCode = d.startCode], b |-> r2.b,
     v |-> r2.d.startTime])))

\* The Decode loop of Duration: the last PTS of a packet of this type.
RECURSIVE lastPtsLoop(_, _, _, _)
lastPtsLoop(d, b, typ, lastPts) ==
    Bind(DemuxDecode(d, b), LAMBDA r :
    IF r.ret = "nil" \/ r.d.panic \/ r.b.panic
    THEN [d |-> r.d, b |-> r.b, lastPts |-> lastPts]
    ELSE lastPtsLoop(r.d, r.b, typ,
                     IF /\ r.d.currentPacket.Pts # PacketInvalidTS
                        /\ r.d.currentPacket.Type = typ
                     THEN r.d.currentPacket.Pts ELSE lastPts))

\* The rounds of Duration from range r on.
RECURSIVE durationRange(_, _, _, _, _)
durationRange(d, b, typ, fileSize, r) ==
    IF r > maxRange THEN [d |-> d, b |-> b]
    ELSE
    Bind(bufferSeek(d, b, IF fileSize - r < 0 THEN 0 ELSE fileSize - r),
         LAMBDA s :
    Bind(lastPtsLoop(s.d, s.b, typ, PacketInvalidTS), LAMBDA l :
    IF l.lastPts # PacketInvalidTS
    THEN Bind(ByteStartTime(l.d, l.b, typ), LAMBDA st :
         [d |-> [st.d EXCEPT !.duration = l.lastPts - st.v], b |-> st.b])
    ELSE durationRange(l.d, l.b, typ, fileSize,
                       2 * (IF fileSize - r < 0 THEN maxRange ELSE r))))

ByteDuration(d, b, typ) ==
    IF d.duration # PacketInvalidTS /\ d.lastFileSize = Size(b)
    THEN [d |-> d, b |-> b, v |-> d.duration]
    ELSE
    Bind(durationRange(d, b, typ, Size(b), startRange), LAMBDA r1 :
    Bind(bufferSeek(r1.d, r1.b, tell(b)), LAMBDA r2 :
    [d |-> [r2.d EXCEPT !.startCode = d.startCode,
                        !.lastFileSize = Size(b)],
     b |-> r2.b, v |-> r2.d.duration]))

(***************************************************************************)
(* The stream times specification: two demuxers read the same program      *)
(* stream from seekable readers.  Decode is called on both in step;        *)
(* StartTime and Duration are called on the first only.                    *)
(***************************************************************************)
MaxTimesPackets == 2

\* A payload that holds the bytes of a short audio packet.
NestedPayload ==
    <<170, 0, 0, 1, PacketAudio1, 0, 3, 15, 170, 170, 170, 170, 170, 170>>

TimesPES(id, marker, payload) ==
    <<0, 0, 1, id, 0, Len(MarkerBytes(marker)) + Len(payload)>>
      \o MarkerBytes(marker) \o payload

TimesPackets ==
    { TimesPES(PacketVideo1, 2, Payload), TimesPES(PacketAudio1, 2, Payload),
      TimesPES(PacketAudio1, 2, NestedPayload) }

\* Bytes missing at the end of a truncated file.
TimesCuts == {0, 4, 17}

RECURSIVE Concat(_)
Concat(ss) == IF ss = <<>> THEN <<>> ELSE Head(ss) \o Concat(Tail(ss))

TimesStreams ==
    { SubSeq(PackHeaderBytes \o SystemHeaderBytes \o Concat(ps), 1,
             Len(PackHeaderBytes \o SystemHeaderBytes \o Concat(ps)) - cut) :
        ps \in UNION { [1..n -> TimesPackets] : n \in 1..MaxTimesPackets },
        cut \in TimesCuts }

TimesTypes == {PacketVideo1, PacketAudio1}

InitTimes ==
    \E stream \in TimesStreams :
      LET b0 == SetLoadCallback(
                  [NewBuffer(TRUE, TRUE, stream) EXCEPT
                     !.available = [i \in 1..NewScratch |-> 0]], "reader")
          nd == HasHeaders(NewDemuxFields @@ [lastFileSize |-> 0], b0)
      IN  /\ pkts = [stream |-> stream]
          /\ buf = nd.b
          /\ demux = nd.d
          /\ twin = [d |-> nd.d, b |-> nd.b]
          /\ lastOp = <<"NewDemux", nd.ok>>
          /\ ahdr = NewAudioHeader
          /\ fed = 0
          /\ PlayIdle

TimesLive == ~buf.panic /\ ~demux.panic /\ ~twin.b.panic /\ ~twin.d.panic

\* What a Decode call returns: the Packet, or nil.
Returned(r) ==
    [ret |-> r.ret,
     Type |-> IF r.ret = "packet" THEN r.d.currentPacket.Type ELSE 0,
     Pts  |-> IF r.ret = "packet" THEN r.d.currentPacket.Pts ELSE 0,
     Data |-> IF r.ret = "packet" THEN r.d.currentPacket.Data ELSE <<>>]

TimesDecode ==
    /\ TimesLive
    /\ LET r == DemuxDecode(demux, buf)
           t == DemuxDecode(twin.d, twin.b)
       IN  /\ demux' = r.d
           /\ buf' = r.b
           /\ twin' = [d |-> t.d, b |-> t.b]
           /\ lastOp' = <<"Decode", Returned(r), Returned(t)>>
    /\ UNCHANGED <<ahdr, pkts, fed, playVars>>

TimesStartTime ==
    /\ TimesLive
    /\ \E typ \in TimesTypes :
         LET r == ByteStartTime(demux, buf, typ) IN
           /\ demux' = r.d
           /\ buf' = r.b
           /\ lastOp' = <<"StartTime", typ, r.v>>
    /\ UNCHANGED <<ahdr, pkts, fed, twin, playVars>>

TimesDuration ==
    /\ TimesLive
    /\ \E typ \in TimesTypes :
         LET r == ByteDuration(demux, buf, typ) IN
           /\ demux' = r.d
           /\ buf' = r.b
           /\ lastOp' = <<"Duration", typ, r.v>>
    /\ UNCHANGED <<ahdr, pkts, fed, twin, playVars>>

NextTimes == TimesDecode \/ TimesStartTime \/ TimesDuration

SpecTimes == InitTimes /\ [][NextTimes]_vars

\* C30: on a seekable source Demux.StartTime and Demux.Duration leave the
\* packet stream alone: every Decode call returns the same packet (type,
\* PTS and data) as on a demuxer on which they were never called, also
\* when they are called while a packet is current or pending.
C30_TimesTransparent ==
    lastOp[1] = "Decode" => lastOp[2] = lastOp[3]

====
